---------------------------- MODULE Spec2Model ----------------------------
(***************************************************************************)
(* Retrieval core of aipolitician-data: the snippet extractor, similarity  *)
(* scorer and ranker of scraper/search_utility.py and the entry normalizer *)
(* and chunker of formatter/data_formatter.py.                             *)
(*                                                                         *)
(* Python values are modelled as follows.  A str is a sequence of          *)
(* one-character strings, indexed from 0 through At.  None is the value    *)
(* None.  A float is an exact rational [num, den] with den > 0, or NaN.    *)
(* An exception leaving a function is the value Raised.                    *)
(***************************************************************************)
EXTENDS Integers, Sequences, FiniteSets, TLC

VARIABLES
    data_dir,       \* the enhanced_*.json files of self.data_dir, in glob order
    politicians,    \* self.politicians
    model,          \* self.tokenizer and self.model: "None" or "loaded"
    search_call,    \* the last search or keyword_search call and its return value
    snippet_call,   \* a call of create_content_snippet
    chunk_call,     \* a run of the chunking loop
    cosine_call,    \* a call of cosine_similarity
    format_call,    \* a call of format_politician_data
    embedder,       \* the embedding model of an instance and the texts it was run on
    records,        \* what the pipeline, the scraper and the formatter have stored
    pipeline,       \* a run of run_pipeline.py
    ingest_call,    \* a call of ingest_politician
    merge_call,     \* a call of merge_data_files and the files of the output directory
    loader          \* a PoliticianDataLoader, its stats and the files it reads and writes

\* the state of the components besides the search instance and the four calls above
scriptVars == <<embedder, records, pipeline, ingest_call, merge_call, loader>>

callVars == <<snippet_call, chunk_call, cosine_call, format_call>>

vars == <<data_dir, politicians, model, search_call,
          snippet_call, chunk_call, cosine_call, format_call, scriptVars>>

searchVars == <<data_dir, politicians, model, search_call>>

-----------------------------------------------------------------------------
(* Python str and list primitives *)

None == [t |-> "None"]
Raised == [t |-> "Raised"]
Idle == [pc |-> "idle"]

\* no PoliticianDataSearch instance is in use
SearchIdle ==
    /\ data_dir = <<>>
    /\ politicians = <<>>
    /\ model = "None"
    /\ search_call = Idle

\* none of the other components is in use
ScriptsIdle ==
    /\ embedder = Idle
    /\ records = Idle
    /\ pipeline = Idle
    /\ ingest_call = Idle
    /\ merge_call = Idle
    /\ loader = Idle

\* none of the four calls is in use
CallsIdle ==
    /\ snippet_call = Idle
    /\ chunk_call = Idle
    /\ cosine_call = Idle
    /\ format_call = Idle

At(s, i) == s[i + 1]

Min(a, b) == IF a < b THEN a ELSE b
Max(a, b) == IF a > b THEN a ELSE b
Abs(a) == IF a < 0 THEN -a ELSE a

\* s[lo:hi] for 0 <= lo, 0 <= hi
Slice(s, lo, hi) == SubSeq(s, lo + 1, Min(hi, Len(s)))

UpperLetters ==
    <<"A", "B", "C", "D", "E", "F", "G", "H", "I", "J", "K", "L", "M",
      "N", "O", "P", "Q", "R", "S", "T", "U", "V", "W", "X", "Y", "Z">>
LowerLetters ==
    <<"a", "b", "c", "d", "e", "f", "g", "h", "i", "j", "k", "l", "m",
      "n", "o", "p", "q", "r", "s", "t", "u", "v", "w", "x", "y", "z">>

\* the characters \w matches
WordChars ==
    {UpperLetters[i] : i \in 1..26} \cup {LowerLetters[i] : i \in 1..26}
    \cup {"0", "1", "2", "3", "4", "5", "6", "7", "8", "9", "_"}

LowerOf ==
    [c \in {UpperLetters[i] : i \in 1..26} |->
        LowerLetters[CHOOSE i \in 1..26 : UpperLetters[i] = c]]

\* str.lower
LowerChar(c) == IF c \in DOMAIN LowerOf THEN LowerOf[c] ELSE c

Lower(s) == [i \in 1..Len(s) |-> LowerChar(s[i])]

\* str.split(): the maximal runs of non-whitespace characters
RECURSIVE SplitFrom(_, _, _)
SplitFrom(s, i, cur) ==
    IF i > Len(s) THEN (IF cur = <<>> THEN <<>> ELSE <<cur>>)
    ELSE IF s[i] = " "
         THEN (IF cur = <<>> THEN <<>> ELSE <<cur>>) \o SplitFrom(s, i + 1, <<>>)
         ELSE SplitFrom(s, i + 1, Append(cur, s[i]))

Split(s) == SplitFrom(s, 1, <<>>)

\* the concatenation of a sequence of sequences
RECURSIVE Flatten(_)
Flatten(seqs) == IF seqs = <<>> THEN <<>> ELSE Head(seqs) \o Flatten(Tail(seqs))

\* sub in s, for two str
Contains(sub, s) ==
    \E p \in 0..(Len(s) - Len(sub)) : SubSeq(s, p + 1, p + Len(sub)) = sub

-----------------------------------------------------------------------------
(* PoliticianDataSearch.create_content_snippet *)

\* \w at 0-based position i; positions outside the string are not word characters
IsWordAt(s, i) == i >= 0 /\ i < Len(s) /\ At(s, i) \in WordChars

\* \b at 0-based position i
WordBoundary(s, i) == IsWordAt(s, i - 1) # IsWordAt(s, i)

\* re.finditer(r'\b' + re.escape(term) + r'\b', s): the pattern matches at 0-based position p
MatchAt(term, s, p) ==
    /\ p + Len(term) <= Len(s)
    /\ SubSeq(s, p + 1, p + Len(term)) = term
    /\ WordBoundary(s, p)
    /\ WordBoundary(s, p + Len(term))

\* the scan of finditer over the positions where the pattern matches, ascending: a
\* match is taken when it starts at or after the end of the match taken before it
RECURSIVE Scan(_, _, _, _)
Scan(candidates, i, from, length) ==
    IF i > Len(candidates) THEN <<>>
    ELSE IF candidates[i] >= from
         THEN <<candidates[i]>> \o Scan(candidates, i + 1, candidates[i] + length, length)
         ELSE Scan(candidates, i + 1, from, length)

\* m.start() for m in re.finditer(...) from position p on
FindFrom(term, s, p) ==
    Scan(SelectSeq([i \in 1..Len(s) |-> i - 1], LAMBDA q : MatchAt(term, s, q)),
         1, p, Len(term))

FindAll(term, s) == FindFrom(term, s, 0)

\* mutant: the terms shorter than 3 are searched like the others
RECURSIVE TermPositionsShortKept(_, _)
TermPositionsShortKept(query_terms, content_lower) ==
    IF query_terms = <<>> THEN <<>>
    ELSE FindAll(Head(query_terms), content_lower)
         \o TermPositionsShortKept(Tail(query_terms), content_lower)

\* the loop over query_terms: terms shorter than 3 are skipped
RECURSIVE TermPositions(_, _)
TermPositions(query_terms, content_lower) ==
    IF query_terms = <<>> THEN <<>>
    ELSE (IF Len(Head(query_terms)) < 3 THEN <<>>
          ELSE FindAll(Head(query_terms), content_lower))
         \o TermPositions(Tail(query_terms), content_lower)

\* mutant: the first position found is taken
ClosestPosFirst(term_positions, middle_pos) == term_positions[1]

\* min(term_positions, key=lambda pos: abs(pos - middle_pos)): the first minimum
ClosestPos(term_positions, middle_pos) ==
    LET best == CHOOSE i \in 1..Len(term_positions) :
                  /\ \A j \in 1..Len(term_positions) :
                        Abs(term_positions[i] - middle_pos) <= Abs(term_positions[j] - middle_pos)
                  /\ \A j \in 1..(i - 1) :
                        Abs(term_positions[j] - middle_pos) > Abs(term_positions[i] - middle_pos)
    IN term_positions[best]

\* while start > 0 and content[start] != ' ': start -= 1
RECURSIVE WalkBack(_, _)
WalkBack(content, start) ==
    IF start > 0 /\ At(content, start) # " " THEN WalkBack(content, start - 1) ELSE start

\* if start > 0: walk back to a space, then start += 1
AdjustStart(content, start) ==
    IF start > 0 THEN WalkBack(content, start) + 1 ELSE start

\* while end < len(content) and content[end] != ' ': end += 1
RECURSIVE AdjustEnd(_, _)
AdjustEnd(content, end) ==
    IF end < Len(content) /\ At(content, end) # " " THEN AdjustEnd(content, end + 1) ELSE end

\* the positions create_content_snippet computes: found is FALSE on the early returns
SnippetWindow(content, query, snippet_size) ==
    IF content = <<>> \/ query = <<>>
    THEN [found |-> FALSE]
    ELSE LET term_positions == TermPositions(Split(Lower(query)), Lower(content))
         IN IF term_positions = <<>>
            THEN [found |-> FALSE]
            ELSE LET middle_pos  == Len(content) \div 2
                     closest_pos == ClosestPos(term_positions, middle_pos)
                     start0      == Max(0, closest_pos - snippet_size \div 2)
                     end0        == Min(Len(content), start0 + snippet_size)
                 IN [found |-> TRUE,
                     term_positions |-> term_positions,
                     closest_pos |-> closest_pos,
                     start |-> AdjustStart(content, start0),
                     end |-> AdjustEnd(content, end0)]

Ellipsis == <<".", ".", ".">>

create_content_snippet(content, query, snippet_size) ==
    LET w == SnippetWindow(content, query, snippet_size)
    IN IF ~w.found THEN <<>>
       ELSE (IF w.start > 0 THEN Ellipsis ELSE <<>>)
            \o Slice(content, w.start, w.end)
            \o (IF w.end < Len(content) THEN Ellipsis ELSE <<>>)

-----------------------------------------------------------------------------
(* Snippet extractor alone: a call with inputs drawn from bounded sets *)

MaxContentLen == 6

ContentChars == {"a", "B", " "}

RECURSIVE StringsUpTo(_, _)
StringsUpTo(chars, n) ==
    IF n = 0 THEN {<<>>}
    ELSE LET shorter == StringsUpTo(chars, n - 1)
         IN shorter \cup {Append(s, c) : s \in {x \in shorter : Len(x) = n - 1}, c \in chars}

SnippetContents == StringsUpTo(ContentChars, MaxContentLen)

SnippetQueries ==
    { <<>>,
      <<"a", "b">>,
      <<"a", "b", "b">>,
      <<"A", "B", "B">>,
      <<"b", "a", " ", "a", "b", "b">>,
      <<"a", "a", "b", " ", "a", "b", "b">> }

SnippetSizes == {2, 4}

S_budget == <<"b", "u", "d", "g", "e", "t">>

\* a document of 500 characters with the word budget at positions 10 and 480
BudgetDocument ==
    [i \in 1..500 |->
        IF i \in 11..16 THEN S_budget[i - 10]
        ELSE IF i \in 481..486 THEN S_budget[i - 480]
        ELSE IF i \in {10, 17, 480, 487} \/ i % 5 = 0 THEN " "
        ELSE "x"]

\* the calls made: every small content with every query and size, and the document
\* of 500 characters with the default size
SnippetCalls ==
    { [pc |-> "called", content |-> c, query |-> q, snippet_size |-> n] :
        c \in SnippetContents, q \in SnippetQueries, n \in SnippetSizes }
    \cup { [pc |-> "called", content |-> BudgetDocument, query |-> S_budget,
            snippet_size |-> 200] }

SnippetInit ==
    /\ snippet_call \in SnippetCalls
    /\ chunk_call = Idle
    /\ cosine_call = Idle
    /\ format_call = Idle
    /\ SearchIdle
    /\ ScriptsIdle

CallCreateContentSnippet ==
    /\ snippet_call.pc = "called"
    /\ snippet_call' =
          [snippet_call EXCEPT !.pc = "returned"]
          @@ [window |-> SnippetWindow(snippet_call.content, snippet_call.query,
                                       snippet_call.snippet_size),
              ret |-> create_content_snippet(snippet_call.content, snippet_call.query,
                                             snippet_call.snippet_size)]
    /\ UNCHANGED <<chunk_call, cosine_call, format_call, searchVars, scriptVars>>

SnippetNext == CallCreateContentSnippet

SnippetSpec == SnippetInit /\ [][SnippetNext]_vars

\* C6: a non-empty snippet's excerpt neither starts nor ends inside a word
SnippetWordBoundarySafe ==
    (snippet_call.pc = "returned" /\ snippet_call.ret # <<>>) =>
        LET c == snippet_call.content
            w == snippet_call.window
        IN /\ (w.start = 0 \/ At(c, w.start - 1) = " ")
           /\ (w.end = Len(c) \/ At(c, w.end) = " ")

-----------------------------------------------------------------------------
(* PoliticianDataFormatter.add_wikipedia_entries: the chunking loop.       *)
(* A sentence of the segmenter is [id, len]: its position in the text and  *)
(* its number of characters (non-empty, no surrounding whitespace).  A     *)
(* chunk and current_chunk are the sequence of sentences they hold.        *)

ChunkLimit == 1000

RECURSIVE SumLen(_)
SumLen(ss) == IF ss = <<>> THEN 0 ELSE Head(ss).len + SumLen(Tail(ss))

\* len(current_chunk): every sentence is followed by one space
CurrentLen(current_chunk) == SumLen(current_chunk) + Len(current_chunk)

\* len(current_chunk.strip()): the trailing space is removed
ChunkLen(chunk) == IF chunk = <<>> THEN 0 ELSE SumLen(chunk) + Len(chunk) - 1

\* mutant: the test forgets the length of the sentence about to be added
FitsIgnoringSentence(current_chunk, sentence) ==
    CurrentLen(current_chunk) < ChunkLimit

\* if len(current_chunk) + len(sentence) < 1000
Fits(current_chunk, sentence) ==
    CurrentLen(current_chunk) + sentence.len < ChunkLimit

\* mutant: the chunk still being built when the loop ends is forgotten
FlushLastForgotten(chunks, current_chunk) == chunks

\* if current_chunk: chunks.append(current_chunk.strip())
FlushLast(chunks, current_chunk) ==
    IF current_chunk # <<>> THEN Append(chunks, current_chunk) ELSE chunks

\* for sentence in sentences: ... , then the flush after the loop
RECURSIVE ChunkLoop(_, _, _)
ChunkLoop(sentences, chunks, current_chunk) ==
    IF sentences = <<>> THEN FlushLast(chunks, current_chunk)
    ELSE LET sentence == Head(sentences)
         IN IF Fits(current_chunk, sentence)
            THEN ChunkLoop(Tail(sentences), chunks, Append(current_chunk, sentence))
            ELSE ChunkLoop(Tail(sentences),
                           IF current_chunk # <<>> THEN Append(chunks, current_chunk)
                                                   ELSE chunks,
                           <<sentence>>)

Chunks(sentences) == ChunkLoop(sentences, <<>>, <<>>)

\* for i, chunk in enumerate(chunks): one wikipedia_content entry per chunk
WikipediaContentEntries(sentences, url, timestamp) ==
    LET chunks == Chunks(sentences)
    IN [i \in 1..Len(chunks) |->
          [type |-> "wikipedia_content", text |-> [t |-> "text", v |-> chunks[i]], source_url |-> url,
           chunk_index |-> i - 1, timestamp |-> timestamp]]

-----------------------------------------------------------------------------
(* Chunking loop alone: sentence sequences drawn from bounded sets *)

MaxSentences == 3

SentenceLens == {1, 499, 500, 998, 999, 1000, 1001}

RECURSIVE LenSeqsUpTo(_)
LenSeqsUpTo(n) ==
    IF n = 0 THEN {<<>>}
    ELSE LET shorter == LenSeqsUpTo(n - 1)
         IN shorter \cup {Append(s, l) : s \in {x \in shorter : Len(x) = n - 1},
                                          l \in SentenceLens}

SentenceSeqs ==
    {[i \in 1..Len(ls) |-> [id |-> i, len |-> ls[i]]] : ls \in LenSeqsUpTo(MaxSentences)}

ChunkInit ==
    /\ \E ss \in SentenceSeqs : chunk_call = [pc |-> "called", sentences |-> ss]
    /\ snippet_call = Idle
    /\ cosine_call = Idle
    /\ format_call = Idle
    /\ SearchIdle
    /\ ScriptsIdle

CallChunk ==
    /\ chunk_call.pc = "called"
    /\ chunk_call' = [pc |-> "returned", sentences |-> chunk_call.sentences,
                      entries |-> WikipediaContentEntries(chunk_call.sentences, <<>>, <<>>)]
    /\ UNCHANGED <<snippet_call, cosine_call, format_call, searchVars, scriptVars>>

ChunkNext == CallChunk

ChunkSpec == ChunkInit /\ [][ChunkNext]_vars

\* C4: every chunk is at most ChunkLimit characters long, except a chunk made of
\* one single sentence that is itself longer than the limit
ChunkLengthBound ==
    chunk_call.pc = "returned" =>
        \A i \in 1..Len(chunk_call.entries) :
            LET chunk == chunk_call.entries[i].text.v
            IN \/ ChunkLen(chunk) <= ChunkLimit
               \/ (Len(chunk) = 1 /\ chunk[1].len > ChunkLimit)

\* C4 witness: a call returned a chunk of two sentences and an oversized single one
ChunkLengthBoundWitness ==
    /\ chunk_call.pc = "returned"
    /\ \E i \in 1..Len(chunk_call.entries) : Len(chunk_call.entries[i].text.v) >= 2
    /\ \E i \in 1..Len(chunk_call.entries) :
          ChunkLen(chunk_call.entries[i].text.v) > ChunkLimit

\* the chunks read in ascending chunk_index order
ChunksByIndex(entries) ==
    [k \in 1..Len(entries) |->
        (CHOOSE e \in {entries[i] : i \in 1..Len(entries)} : e.chunk_index = k - 1).text.v]

\* C5: the sentences read off the chunks in ascending chunk_index order are the
\* input sentences in their order: each lies whole in exactly one chunk, none is lost
ChunkOrderPreserved ==
    chunk_call.pc = "returned" =>
        /\ {chunk_call.entries[i].chunk_index : i \in 1..Len(chunk_call.entries)}
              = 0..(Len(chunk_call.entries) - 1)
        /\ Flatten(ChunksByIndex(chunk_call.entries)) = chunk_call.sentences

\* C5 witness: three sentences, one of them oversized, came back in several chunks
ChunkOrderPreservedWitness ==
    /\ chunk_call.pc = "returned"
    /\ Len(chunk_call.sentences) = 3
    /\ \E i \in 1..3 : chunk_call.sentences[i].len > ChunkLimit
    /\ Len(chunk_call.entries) >= 2

-----------------------------------------------------------------------------
(* Floats: exact rationals in lowest terms, and NaN.  Every comparison     *)
(* with NaN is false, as in IEEE 754.                                      *)

RECURSIVE GCD(_, _)
GCD(a, b) == IF b = 0 THEN a ELSE GCD(b, a % b)

Rat(n, d) ==
    LET g == GCD(Abs(n), d)
    IN [nan |-> FALSE, num |-> n \div g, den |-> d \div g]

NaN == [nan |-> TRUE, num |-> 0, den |-> 1]

Zero == Rat(0, 1)

FloatGt(a, b) == ~a.nan /\ ~b.nan /\ a.num * b.den > b.num * a.den
FloatGe(a, b) == ~a.nan /\ ~b.nan /\ a.num * b.den >= b.num * a.den
FloatEq(a, b) == ~a.nan /\ ~b.nan /\ a.num * b.den = b.num * a.den

-----------------------------------------------------------------------------
(* PoliticianDataSearch.cosine_similarity.                                 *)
(* An embedding is None, a list of numbers Vec(v), or a JSON value that is *)
(* no list of numbers (NotAVector), on which numpy raises.                 *)

Vec(v) == [t |-> "vec", v |-> v]
NotAVector == [t |-> "str"]

RECURSIVE Dot(_, _)
Dot(a, b) == IF a = <<>> THEN 0 ELSE Head(a) * Head(b) + Dot(Tail(a), Tail(b))

\* np.linalg.norm, on the vectors of the model, whose norms are whole numbers
Norm(a) == CHOOSE n \in 0..Dot(a, a) : n * n = Dot(a, a)

\* numpy's scalar division: 0.0 / 0.0 warns and gives nan, it does not raise
Divide(num, den) == IF den = 0 THEN NaN ELSE Rat(num, den)

\* except Exception: log the error and return 0.0
OnException == Zero

cosine_similarity(embedding1, embedding2) ==
    IF embedding1 = None \/ embedding2 = None THEN Zero
    ELSE IF embedding1.t # "vec" \/ embedding2.t # "vec" THEN OnException
    ELSE IF Len(embedding1.v) # Len(embedding2.v) THEN OnException
    ELSE Divide(Dot(embedding1.v, embedding2.v), Norm(embedding1.v) * Norm(embedding2.v))

-----------------------------------------------------------------------------
(* Similarity scorer alone *)

Vectors ==
    { <<>>, <<0, 0>>, <<1, 0>>, <<0, 1>>, <<3, 4>>, <<4, 3>>, <<-3, 4>>, <<1, 0, 0>>,
      <<1, 0, 0, 0>>, <<1, 1, 1, 1>> }

EmbeddingValues == {None, NotAVector} \cup {Vec(v) : v \in Vectors}

CosineInit ==
    /\ \E e1 \in EmbeddingValues, e2 \in EmbeddingValues :
          cosine_call = [pc |-> "called", embedding1 |-> e1, embedding2 |-> e2]
    /\ snippet_call = Idle
    /\ chunk_call = Idle
    /\ format_call = Idle
    /\ SearchIdle
    /\ ScriptsIdle

CallCosineSimilarity ==
    /\ cosine_call.pc = "called"
    /\ cosine_call' = [cosine_call EXCEPT !.pc = "returned"]
          @@ [ret |-> cosine_similarity(cosine_call.embedding1, cosine_call.embedding2)]
    /\ UNCHANGED <<snippet_call, chunk_call, format_call, searchVars, scriptVars>>

CosineNext == CallCosineSimilarity

CosineSpec == CosineInit /\ [][CosineNext]_vars

\* a vector that is null, of zero length, or of zero norm
Degenerate(e) == e = None \/ (e.t = "vec" /\ (e.v = <<>> \/ Dot(e.v, e.v) = 0))

\* C7: cosine_similarity returns exactly 0.0 whenever either vector is null, has
\* zero length or has zero norm
CosineDegenerateIsZero ==
    (/\ cosine_call.pc = "returned"
     /\ (Degenerate(cosine_call.embedding1) \/ Degenerate(cosine_call.embedding2)))
        => cosine_call.ret = Zero

-----------------------------------------------------------------------------
(* JSON values as the formatter and the search utility read them.          *)
(* None, Str(characters), Text(sentences) (a str known by its sentences),  *)
(* List(elements), Dict(<<key, value>> pairs in the order of the file).    *)
(* A call that may raise returns Ok(value) or Raised.                      *)

Str(s) == [t |-> "str", v |-> s]
Text(sentences) == [t |-> "text", v |-> sentences]
List(xs) == [t |-> "list", v |-> xs]
Dict(pairs) == [t |-> "dict", v |-> pairs]
Ok(x) == [t |-> "ok", v |-> x]

EmptyStr == Str(<<>>)

IsRaised(r) == r.t = "Raised"
IsDict(x) == x.t = "dict"
IsList(x) == x.t = "list"
IsStr(x) == x.t = "str"

\* bool(x)
Truthy(x) == IF x.t = "None" THEN FALSE ELSE x.v # <<>>

\* key in d, d[key], d.get(key, default), for a dict d
HasKey(d, k) == \E i \in 1..Len(d.v) : d.v[i][1] = k
Item(d, k) == d.v[CHOOSE i \in 1..Len(d.v) : d.v[i][1] = k][2]
Get(d, k, default) == IF HasKey(d, k) THEN Item(d, k) ELSE default

\* the steps of a loop or a sequence of calls, each Ok(list) or Raised: the first
\* one that raised ends the whole; otherwise the lists are joined in order
Collect(outcomes) ==
    IF \E i \in 1..Len(outcomes) : IsRaised(outcomes[i]) THEN Raised
    ELSE Ok(Flatten([i \in 1..Len(outcomes) |-> outcomes[i].v]))

\* for x in value: the elements visited (the characters of a str)
IterElements(x) ==
    CASE x.t = "list" -> x.v
      [] x.t = "str"  -> [i \in 1..Len(x.v) |-> Str(<<x.v[i]>>)]

\* str(x) inside an f-string
Format(x) == IF x.t = "None" THEN <<"N", "o", "n", "e">> ELSE x.v

-----------------------------------------------------------------------------
(* PoliticianDataFormatter *)

\* raw_data.get("scraped_at", datetime.now().isoformat())
Timestamp(raw_data, now) == Get(raw_data, "scraped_at", now)

add_biographical_entries(raw_data, now) ==
    LET wiki == IF HasKey(raw_data, "wikipedia") /\ HasKey(Item(raw_data, "wikipedia"), "summary")
                THEN <<[type |-> "biography",
                        text |-> Item(Item(raw_data, "wikipedia"), "summary"),
                        source_url |-> Get(Item(raw_data, "wikipedia"), "url", EmptyStr),
                        timestamp |-> Timestamp(raw_data, now)]>>
                ELSE <<>>
        ballot == IF /\ HasKey(raw_data, "ballotpedia")
                     /\ HasKey(Item(raw_data, "ballotpedia"), "sections")
                     /\ HasKey(Item(Item(raw_data, "ballotpedia"), "sections"), "Biography")
                  THEN <<[type |-> "biography",
                          text |-> Item(Item(Item(raw_data, "ballotpedia"), "sections"), "Biography"),
                          source_url |-> Get(Item(raw_data, "ballotpedia"), "url", EmptyStr),
                          timestamp |-> Timestamp(raw_data, now)]>>
                  ELSE <<>>
        congress == IF HasKey(raw_data, "congress_bio") /\ HasKey(Item(raw_data, "congress_bio"), "bio")
                    THEN <<[type |-> "biography",
                            text |-> Item(Item(raw_data, "congress_bio"), "bio"),
                            source_url |-> Get(Item(raw_data, "congress_bio"), "url", EmptyStr),
                            timestamp |-> Timestamp(raw_data, now)]>>
                    ELSE <<>>
    IN Ok(wiki \o ballot \o congress)

\* one article of the loop: article.get raises on anything but a dict
NewsEntry(article, raw_data, now) ==
    IF ~IsDict(article) THEN Raised
    ELSE LET title   == Get(article, "title", EmptyStr)
             content == Get(article, "content", Get(article, "description", EmptyStr))
         IN IF Truthy(content)
            THEN Ok(<<[type |-> "news_article",
                       text |-> Str(Format(title) \o <<"\n", "\n">> \o Format(content)),
                       source_url |-> Get(article, "url", EmptyStr),
                       timestamp |-> Get(article, "published_date", Timestamp(raw_data, now))]>>)
            ELSE Ok(<<>>)

\* for article in raw_data["news_articles"]
NewsLoop(articles, raw_data, now) ==
    Collect([i \in 1..Len(articles) |-> NewsEntry(articles[i], raw_data, now)])

add_news_entries(raw_data, now) ==
    IF HasKey(raw_data, "news_articles")
    THEN (IF Item(raw_data, "news_articles").t = "None" THEN Raised
          ELSE NewsLoop(IterElements(Item(raw_data, "news_articles")), raw_data, now))
    ELSE Ok(<<>>)

\* for section_name, content in sections.items(): if content: one entry
RECURSIVE SectionEntries(_, _, _, _)
SectionEntries(pairs, type, url, timestamp) ==
    IF pairs = <<>> THEN <<>>
    ELSE (IF Truthy(Head(pairs)[2])
          THEN <<[type |-> type, section_name |-> Head(pairs)[1], text |-> Head(pairs)[2],
                  source_url |-> url, timestamp |-> timestamp]>>
          ELSE <<>>)
         \o SectionEntries(Tail(pairs), type, url, timestamp)

\* if "sections" in owner: for section_name, content in owner["sections"].items()
SectionsLoop(owner, type, raw_data, now) ==
    IF HasKey(owner, "sections")
    THEN (IF ~IsDict(Item(owner, "sections")) THEN Raised
          ELSE Ok(SectionEntries(Item(owner, "sections").v, type,
                                 Get(owner, "url", EmptyStr), Timestamp(raw_data, now))))
    ELSE Ok(<<>>)

add_wikipedia_entries(raw_data, now) ==
    IF ~HasKey(raw_data, "wikipedia") THEN Ok(<<>>)
    ELSE LET wikipedia == Item(raw_data, "wikipedia")
             content == IF HasKey(wikipedia, "content")
                        THEN Ok(WikipediaContentEntries(Item(wikipedia, "content").v,
                                                        Get(wikipedia, "url", EmptyStr),
                                                        Timestamp(raw_data, now)))
                        ELSE Ok(<<>>)
         IN Collect(<<content, SectionsLoop(wikipedia, "wikipedia_section", raw_data, now)>>)

add_ballotpedia_entries(raw_data, now) ==
    IF ~HasKey(raw_data, "ballotpedia") THEN Ok(<<>>)
    ELSE SectionsLoop(Item(raw_data, "ballotpedia"), "ballotpedia_section", raw_data, now)

\* section_key.replace("ballotpedia_", "").replace("wikipedia_", ""), on the keys of the model
CleanSectionName(section_key) ==
    CASE section_key = "ballotpedia_Votes" -> "Votes"
      [] section_key = "wikipedia_Votes" -> "Votes"
      [] OTHER -> section_key

\* the voting_record entries carry no source_url key
RECURSIVE VotingEntries(_, _)
VotingEntries(pairs, timestamp) ==
    IF pairs = <<>> THEN <<>>
    ELSE (IF Truthy(Head(pairs)[2])
          THEN <<[type |-> "voting_record", section_name |-> CleanSectionName(Head(pairs)[1]),
                  text |-> Head(pairs)[2], timestamp |-> timestamp]>>
          ELSE <<>>)
         \o VotingEntries(Tail(pairs), timestamp)

add_voting_record_entries(raw_data, now) ==
    IF HasKey(raw_data, "voting_record") /\ HasKey(Item(raw_data, "voting_record"), "sections")
    THEN (IF ~IsDict(Item(Item(raw_data, "voting_record"), "sections")) THEN Raised
          ELSE Ok(VotingEntries(Item(Item(raw_data, "voting_record"), "sections").v,
                                Timestamp(raw_data, now))))
    ELSE Ok(<<>>)

TextKey == <<"t", "e", "x", "t">>
UntitledSpeech == <<"U", "n", "t", "i", "t", "l", "e", "d", " ", "S", "p", "e", "e", "c", "h">>

\* if "text" in speech: append an entry built from speech["text"] and speech.get(...).
\* On a str, "text" in speech is a substring test and speech["text"] raises TypeError;
\* on None the test itself raises.
SpeechEntry(speech, raw_data, now) ==
    CASE speech.t = "None" -> Raised
      [] speech.t = "str" -> IF Contains(TextKey, speech.v) THEN Raised ELSE Ok(<<>>)
      [] speech.t = "list" ->
            IF \E i \in 1..Len(speech.v) : speech.v[i] = Str(TextKey) THEN Raised ELSE Ok(<<>>)
      [] speech.t = "dict" ->
            IF HasKey(speech, "text")
            THEN Ok(<<[type |-> "speech", text |-> Item(speech, "text"),
                       title |-> Get(speech, "title", Str(UntitledSpeech)),
                       date |-> Get(speech, "date", EmptyStr),
                       source_url |-> Get(speech, "source", EmptyStr),
                       timestamp |-> Timestamp(raw_data, now)]>>)
            ELSE Ok(<<>>)

\* for speech in raw_data["speeches"]
SpeechLoop(speeches, raw_data, now) ==
    Collect([i \in 1..Len(speeches) |-> SpeechEntry(speeches[i], raw_data, now)])

add_speech_entries(raw_data, now) ==
    IF HasKey(raw_data, "speeches") /\ IsList(Item(raw_data, "speeches"))
    THEN SpeechLoop(Item(raw_data, "speeches").v, raw_data, now)
    ELSE Ok(<<>>)

\* the characters of the platform keys of the model
PlatformChars(platform) ==
    CASE platform = "twitter" -> <<"t", "w", "i", "t", "t", "e", "r">>
      [] platform = "facebook" -> <<"f", "a", "c", "e", "b", "o", "o", "k">>
      [] platform = "youtube" -> <<"y", "o", "u", "t", "u", "b", "e">>

\* f"{formatted_data['name']}'s {platform} account: {url}"
AccountText(name, platform, url) ==
    Str(Format(name) \o <<"'", "s", " ">> \o PlatformChars(platform)
        \o <<" ", "a", "c", "c", "o", "u", "n", "t", ":", " ">> \o Format(url))

SocialEntry(name, platform, url, timestamp) ==
    [type |-> "social_media", platform |-> platform, text |-> AccountText(name, platform, url),
     source_url |-> url, timestamp |-> timestamp]

\* for platform, urls in social_media.items(): a list gives one entry per url, a str
\* one entry, anything else none
RECURSIVE SocialEntries(_, _, _)
SocialEntries(pairs, name, timestamp) ==
    IF pairs = <<>> THEN <<>>
    ELSE LET platform == Head(pairs)[1]
             urls == Head(pairs)[2]
         IN (CASE urls.t = "list" ->
                    [i \in 1..Len(urls.v) |-> SocialEntry(name, platform, urls.v[i], timestamp)]
               [] urls.t = "str" -> <<SocialEntry(name, platform, urls, timestamp)>>
               [] OTHER -> <<>>)
            \o SocialEntries(Tail(pairs), name, timestamp)

add_social_media_entries(raw_data, name, now) ==
    IF HasKey(raw_data, "social_media")
    THEN (IF ~IsDict(Item(raw_data, "social_media")) THEN Raised
          ELSE Ok(SocialEntries(Item(raw_data, "social_media").v, name, Timestamp(raw_data, now))))
    ELSE Ok(<<>>)

Unknown == <<"U", "n", "k", "n", "o", "w", "n">>

\* re.sub(r'[^\w\s-]', '', politician_name).lower().replace(' ', '-')
RECURSIVE SafeName(_)
SafeName(name) ==
    IF name = <<>> THEN <<>>
    ELSE LET c == Head(name)
         IN (IF c = " " THEN <<"-">>
             ELSE IF c \in WordChars \/ c = "-" THEN <<LowerChar(c)>>
             ELSE <<>>)
            \o SafeName(Tail(name))

\* mutant: the speeches are added before the biographies
AllEntriesSpeechesFirst(raw_data, name, now) ==
    Collect(<<add_speech_entries(raw_data, now),
              add_biographical_entries(raw_data, now),
              add_news_entries(raw_data, now),
              add_wikipedia_entries(raw_data, now),
              add_ballotpedia_entries(raw_data, now),
              add_voting_record_entries(raw_data, now),
              add_social_media_entries(raw_data, name, now)>>)

\* the entries, section by section in the order of the calls; the first section that
\* raises ends the call
AllEntries(raw_data, name, now) ==
    Collect(<<add_biographical_entries(raw_data, now),
              add_news_entries(raw_data, now),
              add_wikipedia_entries(raw_data, now),
              add_ballotpedia_entries(raw_data, now),
              add_voting_record_entries(raw_data, now),
              add_speech_entries(raw_data, now),
              add_social_media_entries(raw_data, name, now)>>)

\* format_politician_data(raw_data), with uuid.uuid4().hex[:8] and datetime.now() given.
\* The fields date_of_birth, political_affiliation and positions, which come from the
\* infobox and from spaCy, are left out: the records of the model hold no infobox.
format_politician_data(raw_data, uuid_hex, now) ==
    IF ~Truthy(raw_data) THEN Ok(None)
    ELSE LET politician_name == Get(raw_data, "name", Str(Unknown))
         IN IF ~IsStr(politician_name) THEN Raised
            ELSE LET entries == AllEntries(raw_data, politician_name, now)
                 IN IF IsRaised(entries) THEN Raised
                    ELSE Ok([id |-> SafeName(politician_name.v) \o <<"-">> \o uuid_hex,
                             name |-> politician_name,
                             entries |-> entries.v])

-----------------------------------------------------------------------------
(* Entry normalizer alone: raw records built from a few shapes per section *)

S_bio == <<"b", "i", "o">>
S_url == <<"u", "r", "l">>
S_name == <<"A", "l", " ", "B", ".">>
S_scraped == <<"2", "0", "2", "4">>
S_published == <<"2", "0", "2", "3">>
S_now == <<"n", "o", "w">>
S_later == <<"l", "a", "t", "e", "r">>
S_title == <<"T">>
S_body == <<"c">>
S_context == <<"c", "o", "n", "t", "e", "x", "t">>
S_remarks ==
    <<"R", "e", "m", "a", "r", "k", "s", " ", "o", "n", " ", "t", "r", "a", "d", "e", " ",
      "p", "o", "l", "i", "c", "y", ".">>

Absent == <<>>
Field(k, v) == <<<<k, v>>>>

NameShapes == {Absent, Field("name", Str(S_name))}

ScrapedAtShapes == {Absent, Field("scraped_at", Str(S_scraped))}

WikipediaShapes ==
    { Absent,
      Field("wikipedia", Dict(<<<<"summary", Str(S_bio)>>, <<"url", Str(S_url)>>>>)),
      Field("wikipedia", Dict(<<<<"summary", EmptyStr>>,
                                <<"content", Text(<<[id |-> 1, len |-> 600],
                                                    [id |-> 2, len |-> 600]>>)>>,
                                <<"sections", Dict(<<<<"Early life", Str(S_body)>>,
                                                     <<"Career", EmptyStr>>>>)>>,
                                <<"url", Str(S_url)>>>>)),
      Field("wikipedia", Dict(<<<<"summary", Str(S_bio)>>,
                                <<"sections", List(<<Str(S_body)>>)>>>>)) }

NewsShapes ==
    { Absent,
      Field("news_articles",
            List(<< Dict(<<<<"title", Str(S_title)>>, <<"content", Str(S_body)>>,
                           <<"url", Str(S_url)>>, <<"published_date", Str(S_published)>>>>),
                    Dict(<<<<"title", Str(S_title)>>, <<"description", Str(S_body)>>>>),
                    Dict(<<<<"title", Str(S_title)>>, <<"content", EmptyStr>>>>) >>)),
      Field("news_articles",
            List(<< Dict(<<<<"content", Str(S_body)>>, <<"published_date", EmptyStr>>>>) >>)),
      Field("news_articles", Str(S_body)),
      Field("news_articles", EmptyStr) }

BallotpediaShapes ==
    { Absent,
      Field("ballotpedia", Dict(<<<<"sections", Dict(<<<<"Biography", EmptyStr>>,
                                                       <<"Elections", Str(S_body)>>>>)>>,
                                  <<"url", Str(S_url)>>>>)) }

CongressShapes == {Absent, Field("congress_bio", Dict(<<<<"bio", Str(S_bio)>>>>))}

VotingShapes ==
    { Absent,
      Field("voting_record", Dict(<<<<"sections", Dict(<<<<"ballotpedia_Votes", Str(S_body)>>>>)>>>>)) }

SpeechShapes ==
    { Absent,
      Field("speeches", List(<< Dict(<<<<"text", Str(S_body)>>, <<"source", Str(S_url)>>>>),
                                Dict(<<<<"title", Str(S_title)>>>>) >>)),
      Field("speeches", List(<<EmptyStr, Str(S_remarks)>>)),
      Field("speeches", List(<<Str(S_context)>>)),
      Field("speeches", Str(S_body)) }

SocialShapes ==
    { Absent,
      Field("social_media", Dict(<<<<"twitter", List(<<Str(S_url), Str(S_bio)>>)>>,
                                   <<"facebook", Str(S_url)>>,
                                   <<"youtube", None>>>>)),
      Field("social_media", List(<<>>)) }

RawRecords ==
    { Dict(n \o sa \o w \o ne \o b \o c \o v \o sp \o so) :
        n \in NameShapes, sa \in ScrapedAtShapes, w \in WikipediaShapes, ne \in NewsShapes,
        b \in BallotpediaShapes, c \in CongressShapes, v \in VotingShapes,
        sp \in SpeechShapes, so \in SocialShapes }

\* uuid.uuid4().hex[:8]: two of the values it can take
UuidPrefixes ==
    { <<"0", "0", "0", "0", "0", "0", "0", "0">>,
      <<"f", "f", "f", "f", "f", "f", "f", "f">> }

FormatInit ==
    /\ \E raw_data \in RawRecords : format_call = [pc |-> "called", raw_data |-> raw_data]
    /\ snippet_call = Idle
    /\ chunk_call = Idle
    /\ cosine_call = Idle
    /\ SearchIdle
    /\ ScriptsIdle

CallFormatPoliticianData ==
    /\ format_call.pc = "called"
    /\ \E uuid_hex \in UuidPrefixes :
          format_call' = [pc |-> "returned", raw_data |-> format_call.raw_data,
                          ret |-> format_politician_data(format_call.raw_data, uuid_hex,
                                                         Str(S_now))]
    /\ UNCHANGED <<snippet_call, chunk_call, cosine_call, searchVars, scriptVars>>

\* the same raw record is formatted a second time, at a later time
CallFormatPoliticianDataAgain ==
    /\ format_call.pc = "returned"
    /\ \E uuid_hex \in UuidPrefixes :
          format_call' = [pc |-> "repeated", raw_data |-> format_call.raw_data,
                          first |-> format_call.ret,
                          ret |-> format_politician_data(format_call.raw_data, uuid_hex,
                                                         Str(S_later))]
    /\ UNCHANGED <<snippet_call, chunk_call, cosine_call, searchVars, scriptVars>>

FormatNext == CallFormatPoliticianData \/ CallFormatPoliticianDataAgain

FormatSpec == FormatInit /\ [][FormatNext]_vars

\* the entries of the given type, in their order
RECURSIVE SelectType(_, _)
SelectType(entries, type) ==
    IF entries = <<>> THEN <<>>
    ELSE (IF Head(entries).type = type THEN <<Head(entries)>> ELSE <<>>)
         \o SelectType(Tail(entries), type)

RECURSIVE NonEmptyStrings(_)
NonEmptyStrings(xs) ==
    IF xs = <<>> THEN <<>>
    ELSE (IF Truthy(Head(xs)) THEN <<Head(xs)>> ELSE <<>>) \o NonEmptyStrings(Tail(xs))

IsListOfStr(x) == IsList(x) /\ \A i \in 1..Len(x.v) : IsStr(x.v[i])

\* C8: a speeches section that is a list of strings yields one speech entry per
\* non-empty string, with that string as its text, and none for an empty string
SpeechStringsBecomeEntries ==
    (/\ format_call.pc = "returned"
     /\ HasKey(format_call.raw_data, "speeches")
     /\ IsListOfStr(Item(format_call.raw_data, "speeches"))
     /\ Item(format_call.raw_data, "speeches").v # <<>>)
        => /\ format_call.ret.t = "ok"
           /\ LET speeches == SelectType(format_call.ret.v.entries, "speech")
                  strings == NonEmptyStrings(Item(format_call.raw_data, "speeches").v)
              IN /\ Len(speeches) = Len(strings)
                 /\ \A i \in 1..Len(strings) : speeches[i].text = strings[i]

\* the record without the key k
RECURSIVE DropPairs(_, _)
DropPairs(pairs, k) ==
    IF pairs = <<>> THEN <<>>
    ELSE (IF Head(pairs)[1] = k THEN <<>> ELSE <<Head(pairs)>>) \o DropPairs(Tail(pairs), k)

DropKey(d, k) == Dict(DropPairs(d.v, k))

MapPairs(pairs, k, v) ==
    [i \in 1..Len(pairs) |-> IF pairs[i][1] = k THEN <<k, v>> ELSE pairs[i]]

NewsMalformed(raw_data) ==
    HasKey(raw_data, "news_articles") /\ ~IsList(Item(raw_data, "news_articles"))

WikipediaSectionsMalformed(raw_data) ==
    /\ HasKey(raw_data, "wikipedia")
    /\ HasKey(Item(raw_data, "wikipedia"), "sections")
    /\ ~IsDict(Item(Item(raw_data, "wikipedia"), "sections"))

\* the speeches and social_media sections have their expected shape
RestWellFormed(raw_data) ==
    /\ HasKey(raw_data, "speeches") =>
          /\ IsList(Item(raw_data, "speeches"))
          /\ \A i \in 1..Len(Item(raw_data, "speeches").v) : IsDict(Item(raw_data, "speeches").v[i])
    /\ HasKey(raw_data, "social_media") => IsDict(Item(raw_data, "social_media"))

\* the record with its malformed news_articles and wikipedia.sections taken out
WithoutMalformed(raw_data) ==
    LET r1 == IF NewsMalformed(raw_data) THEN DropKey(raw_data, "news_articles") ELSE raw_data
    IN IF WikipediaSectionsMalformed(r1)
       THEN Dict(MapPairs(r1.v, "wikipedia", DropKey(Item(r1, "wikipedia"), "sections")))
       ELSE r1

\* C9: when news_articles is no list or wikipedia.sections is no mapping, the call
\* does not raise and returns every entry the remaining sections produce
MalformedSectionSkipped ==
    (/\ format_call.pc = "returned"
     /\ NewsMalformed(format_call.raw_data) \/ WikipediaSectionsMalformed(format_call.raw_data)
     /\ RestWellFormed(format_call.raw_data))
        => /\ format_call.ret.t = "ok"
           /\ format_call.ret.v.entries =
                 AllEntries(WithoutMalformed(format_call.raw_data),
                            format_call.ret.v.name, Str(S_now)).v

-----------------------------------------------------------------------------
(* PoliticianDataSearch: the semantic path *)

Half == Rat(1, 2)
ThreeTenths == Rat(3, 10)
SnippetSizeDefault == 200
FallbackLen == 200

\* snippet if snippet else content[:200] + "..."
SnippetOrHead(content, query) ==
    LET snippet == create_content_snippet(content, query, SnippetSizeDefault)
    IN IF snippet # <<>> THEN snippet ELSE Slice(content, 0, FallbackLen) \o Ellipsis

\* mutant: the threshold test lets a similarity equal to the threshold through
AboveSemanticThresholdInclusive(similarity) == FloatGe(similarity, Half)

\* if similarity > 0.5
AboveSemanticThreshold(similarity) == FloatGt(similarity, Half)

\* one turn of the loop of search_news_mentions
NewsResult(news, embedding, query, query_embedding) ==
    IF embedding = None THEN Ok(<<>>)
    ELSE LET similarity == cosine_similarity(query_embedding, embedding)
         IN IF ~AboveSemanticThreshold(similarity) THEN Ok(<<>>)
            ELSE IF ~IsDict(news) THEN Raised
            ELSE LET content == Get(news, "content", EmptyStr)
                 IN IF ~IsStr(content) THEN Raised
                    ELSE Ok(<<[type |-> "news",
                               title |-> Get(news, "title", EmptyStr),
                               content |-> Str(SnippetOrHead(content.v, query)),
                               relevance |-> similarity,
                               source |-> Get(news, "source", EmptyStr),
                               url |-> Get(news, "url", EmptyStr),
                               published_date |-> Get(news, "published_date", EmptyStr)]>>)

\* one turn of the loop of search_statements
StatementResult(statement, embedding, query, query_embedding) ==
    IF embedding = None THEN Ok(<<>>)
    ELSE LET similarity == cosine_similarity(query_embedding, embedding)
         IN IF ~AboveSemanticThreshold(similarity) THEN Ok(<<>>)
            ELSE IF ~IsDict(statement) THEN Raised
            ELSE Ok(<<[type |-> "statement",
                       content |-> Get(statement, "text", EmptyStr),
                       relevance |-> similarity,
                       source |-> Get(statement, "source", EmptyStr)]>>)

\* one turn of the loop of search_speeches
SpeechResult(speech, embedding, query, query_embedding) ==
    IF embedding = None THEN Ok(<<>>)
    ELSE LET similarity == cosine_similarity(query_embedding, embedding)
         IN IF ~AboveSemanticThreshold(similarity) THEN Ok(<<>>)
            ELSE IF ~IsDict(speech) THEN Raised
            ELSE LET text == Get(speech, "text", EmptyStr)
                 IN IF ~IsStr(text) THEN Raised
                    ELSE Ok(<<[type |-> "speech",
                               content |-> Str(SnippetOrHead(text.v, query)),
                               relevance |-> similarity,
                               source |-> Get(speech, "source", EmptyStr)]>>)

ItemResult(kind, item, embedding, query, query_embedding) ==
    CASE kind = "news_mentions" -> NewsResult(item, embedding, query, query_embedding)
      [] kind = "statements" -> StatementResult(item, embedding, query, query_embedding)
      [] kind = "speeches" -> SpeechResult(item, embedding, query, query_embedding)

\* for i, (item, embedding) in enumerate(zip(items, embeddings))
ZipLoop(kind, items, embeddings, query, query_embedding) ==
    Collect([i \in 1..Len(items) |->
                ItemResult(kind, items[i], embeddings[i], query, query_embedding)])

EmbeddingsKey(kind) ==
    CASE kind = "news_mentions" -> "news_embeddings"
      [] kind = "statements" -> "statement_embeddings"
      [] kind = "speeches" -> "speech_embeddings"

\* search_news_mentions, search_statements, search_speeches: the items and their
\* embeddings are read, and nothing is returned unless both are there in equal number
SearchItems(kind, politician, query, query_embedding) ==
    LET items == Get(Get(politician, "content", Dict(<<>>)), kind, List(<<>>))
        embeddings == Get(Get(politician, "semantic_index", Dict(<<>>)),
                          EmbeddingsKey(kind), List(<<>>))
    IN IF ~Truthy(items) \/ ~Truthy(embeddings) \/ Len(items.v) # Len(embeddings.v)
       THEN Ok(<<>>)
       ELSE ZipLoop(kind, items.v, embeddings.v, query, query_embedding)

\* search_bio: the result, or nothing; the result has no source key
search_bio(politician, query, query_embedding) ==
    LET bio_text == Get(politician, "biographical_summary", EmptyStr)
        bio_embedding == Get(Get(politician, "semantic_index", Dict(<<>>)), "bio_embedding", None)
    IN IF ~Truthy(bio_text) \/ ~Truthy(bio_embedding) THEN Ok(<<>>)
       ELSE LET similarity == cosine_similarity(query_embedding, bio_embedding)
            IN IF AboveSemanticThreshold(similarity)
               THEN Ok(<<[type |-> "bio",
                          content |-> Str(SnippetOrHead(bio_text.v, query)),
                          relevance |-> similarity]>>)
               ELSE Ok(<<>>)

\* result["politician"] = politician_name, for every result of the list
WithPolitician(results, politician_name) ==
    IF IsRaised(results) THEN Raised
    ELSE Ok([i \in 1..Len(results.v) |-> results.v[i] @@ [politician |-> politician_name]])

\* if "content" in politician and kind in politician["content"]
HasContent(politician, kind) ==
    HasKey(politician, "content") /\ HasKey(Item(politician, "content"), kind)

\* the body of the loop over self.politicians in search
PoliticianResults(politician, query, query_embedding) ==
    LET politician_name == Get(politician, "name", Str(Unknown))
        Section(kind) ==
            IF HasContent(politician, kind)
            THEN WithPolitician(SearchItems(kind, politician, query, query_embedding),
                                politician_name)
            ELSE Ok(<<>>)
    IN Collect(<<Section("news_mentions"), Section("statements"), Section("speeches"),
                 WithPolitician(search_bio(politician, query, query_embedding),
                                politician_name)>>)

\* for politician in self.politicians: all_results
SearchLoop(loaded, query, query_embedding) ==
    Collect([i \in 1..Len(loaded) |-> PoliticianResults(loaded[i], query, query_embedding)])

-----------------------------------------------------------------------------
(* sorted(all_results, key=relevance, reverse=True)[:top_k] *)

\* x goes behind every element whose relevance is not below its own: the sort is
\* stable, equal relevances keep the order of all_results
\* mutant: a result is put ahead of the results of equal relevance found before it
InsertByRelevanceAheadOfEquals(sorted, x) ==
    LET ahead == Cardinality({i \in 1..Len(sorted) :
                                 FloatGt(sorted[i].relevance, x.relevance)})
    IN SubSeq(sorted, 1, ahead) \o <<x>> \o SubSeq(sorted, ahead + 1, Len(sorted))

\* sorted(..., reverse=True) is stable: the place of a result is after the results
\* found before it whose relevance is as high
InsertByRelevance(sorted, x) ==
    LET ahead == Cardinality({i \in 1..Len(sorted) :
                                 FloatGe(sorted[i].relevance, x.relevance)})
    IN SubSeq(sorted, 1, ahead) \o <<x>> \o SubSeq(sorted, ahead + 1, Len(sorted))

RECURSIVE SortLoop(_, _)
SortLoop(sorted, rest) ==
    IF rest = <<>> THEN sorted ELSE SortLoop(InsertByRelevance(sorted, Head(rest)), Tail(rest))

\* mutant: the results are returned in the order they were found
SortedByRelevanceSkipped(all_results) == all_results

SortedByRelevance(all_results) == SortLoop(<<>>, all_results)

\* sorted_results[:top_k]: a negative top_k counts from the end of the list
TopK(sorted_results, top_k) ==
    IF top_k >= 0
    THEN SubSeq(sorted_results, 1, Min(top_k, Len(sorted_results)))
    ELSE SubSeq(sorted_results, 1, Max(Len(sorted_results) + top_k, 0))

-----------------------------------------------------------------------------
(* PoliticianDataSearch.keyword_search *)

\* sum(1 for term in query_terms if len(term) > 2 and (term in title or term in content))
RECURSIVE Matches(_, _)
Matches(query_terms, texts) ==
    IF query_terms = <<>> THEN 0
    ELSE (IF Len(Head(query_terms)) > 2 /\ \E i \in 1..Len(texts) : Contains(Head(query_terms), texts[i])
          THEN 1 ELSE 0)
         + Matches(Tail(query_terms), texts)

\* relevance = matches / len(query_terms) if query_terms else 0
Relevance(query_terms, texts) ==
    IF query_terms # <<>> THEN Rat(Matches(query_terms, texts), Len(query_terms)) ELSE Zero

\* if relevance > 0.3
AboveKeywordThreshold(relevance) == FloatGt(relevance, ThreeTenths)

\* one news mention: .lower() raises on a title or content that is no str
KeywordNews(news, query, politician_name) ==
    IF ~IsDict(news) THEN Raised
    ELSE LET title == Get(news, "title", EmptyStr)
             content == Get(news, "content", EmptyStr)
         IN IF ~IsStr(title) \/ ~IsStr(content) THEN Raised
            ELSE LET relevance == Relevance(Split(Lower(query)),
                                            <<Lower(title.v), Lower(content.v)>>)
                 IN IF AboveKeywordThreshold(relevance)
                    THEN Ok(<<[type |-> "news",
                               politician |-> politician_name,
                               title |-> title,
                               content |-> Str(SnippetOrHead(content.v, query)),
                               relevance |-> relevance,
                               source |-> Get(news, "source", EmptyStr),
                               url |-> Get(news, "url", EmptyStr),
                               published_date |-> Get(news, "published_date", EmptyStr)]>>)
                    ELSE Ok(<<>>)

\* one statement: .lower() raises on a text that is no str
KeywordStatement(statement, query, politician_name) ==
    IF ~IsDict(statement) THEN Raised
    ELSE LET text == Get(statement, "text", EmptyStr)
         IN IF ~IsStr(text) THEN Raised
            ELSE LET relevance == Relevance(Split(Lower(query)), <<Lower(text.v)>>)
                 IN IF AboveKeywordThreshold(relevance)
                    THEN Ok(<<[type |-> "statement",
                               politician |-> politician_name,
                               content |-> text,
                               relevance |-> relevance,
                               source |-> Get(statement, "source", EmptyStr)]>>)
                    ELSE Ok(<<>>)

KeywordItems(kind, items, query, politician_name) ==
    Collect([i \in 1..Len(items) |->
                IF kind = "news_mentions"
                THEN KeywordNews(items[i], query, politician_name)
                ELSE KeywordStatement(items[i], query, politician_name)])

\* the body of the loop over self.politicians in keyword_search
KeywordPolitician(politician, query) ==
    LET politician_name == Get(politician, "name", Str(Unknown))
        Section(kind) ==
            IF HasContent(politician, kind)
            THEN KeywordItems(kind, Item(Item(politician, "content"), kind).v, query,
                              politician_name)
            ELSE Ok(<<>>)
    IN Collect(<<Section("news_mentions"), Section("statements")>>)

\* for politician in self.politicians: all_results
KeywordLoop(loaded, query) ==
    Collect([i \in 1..Len(loaded) |-> KeywordPolitician(loaded[i], query)])

-----------------------------------------------------------------------------
(* The PoliticianDataSearch instance: the files of data_dir, self.politicians, *)
(* the embedding model, and the last call with what it returned.               *)

S_tax == <<"t", "a", "x">>
S_cut == <<"c", "u", "t">>
S_war == <<"w", "a", "r">>
S_tax_cut == <<"t", "a", "x", " ", "c", "u", "t">>
S_war_cut == <<"w", "a", "r", " ", "c", "u", "t">>
S_Tax_war == <<"T", "a", "x", " ", "w", "a", "r">>
S_tax_cut_war == <<"t", "a", "x", " ", "c", "u", "t", " ", "w", "a", "r">>
S_tax_tax_war == <<"t", "a", "x", " ", "t", "a", "x", " ", "w", "a", "r">>
S_a_tax == <<"a", " ", "t", "a", "x">>
S_Al == <<"A", "l">>
S_Bo == <<"B", "o">>
S_src == <<"s", "r", "c">>

\* the embedding model on the queries of the model: a fixed vector per text
Embed(query_text) ==
    CASE query_text = S_tax -> <<1, 0, 0, 0>>
      [] query_text = S_tax_cut -> <<3, 4, 0, 0>>
      [] query_text = S_tax_cut_war -> <<0, 0, 0, 0>>
      [] OTHER -> <<0, 1, 0, 0>>

Queries == {<<>>, S_tax, S_tax_cut, S_tax_cut_war, S_tax_tax_war, S_a_tax}

TopKs == {-1, 0, 1, 2, 5}

N_tax == Dict(<<<<"title", Str(S_tax)>>, <<"content", Str(S_tax_cut)>>,
                <<"source", Str(S_src)>>, <<"url", Str(S_url)>>>>)
N_war == Dict(<<<<"title", Str(S_war)>>, <<"content", Str(S_cut)>>>>)
N_untitled == Dict(<<<<"content", Str(S_tax_cut_war)>>>>)
N_null_title == Dict(<<<<"title", None>>, <<"content", Str(S_tax)>>>>)
N_null_content == Dict(<<<<"title", Str(S_tax)>>, <<"content", None>>>>)
St_tax == Dict(<<<<"text", Str(S_tax)>>, <<"source", Str(S_src)>>>>)
St_war_cut == Dict(<<<<"text", Str(S_war_cut)>>>>)
St_null == Dict(<<<<"text", None>>>>)
Sp_tax_war == Dict(<<<<"text", Str(S_Tax_war)>>, <<"source", Str(S_src)>>>>)

\* a file json.load cannot parse
Unparsable == [t |-> "unparsable"]

\* every section present, every entry embedded
RecordFull ==
    Dict(<<<<"name", Str(S_Al)>>,
           <<"biographical_summary", Str(S_tax)>>,
           <<"content", Dict(<<<<"news_mentions", List(<<N_war, N_tax, N_untitled>>)>>,
                               <<"statements", List(<<St_tax, St_war_cut>>)>>,
                               <<"speeches", List(<<Sp_tax_war>>)>>>>)>>,
           <<"semantic_index",
             Dict(<<<<"news_embeddings", List(<<Vec(<<1, 1, 1, 1>>), Vec(<<3, 4, 0, 0>>),
                                               Vec(<<4, 3, 0, 0>>)>>)>>,
                    <<"statement_embeddings", List(<<Vec(<<0, 1, 0, 0>>), Vec(<<3, 4, 0, 0>>)>>)>>,
                    <<"speech_embeddings", List(<<Vec(<<4, 3, 0, 0>>)>>)>>,
                    <<"bio_embedding", Vec(<<1, 1, 1, 1>>)>>>>)>>>>)

\* no content, no semantic index
RecordNoContent ==
    Dict(<<<<"name", Str(S_Bo)>>, <<"biographical_summary", Str(S_war)>>>>)

\* no name; the statement embeddings are missing, one news embedding is null, one has
\* zero norm, one has the wrong length
RecordBadEmbeddings ==
    Dict(<<<<"content", Dict(<<<<"news_mentions", List(<<N_tax, N_war, N_untitled>>)>>,
                               <<"statements", List(<<St_war_cut, St_tax>>)>>>>)>>,
           <<"semantic_index",
             Dict(<<<<"news_embeddings", List(<<None, Vec(<<0, 0, 0, 0>>), Vec(<<1, 0, 0>>)>>)>>,
                    <<"statement_embeddings", List(<<NotAVector>>)>>>>)>>>>)

\* a news mention whose title is null and a statement whose text is null
RecordNullFields ==
    Dict(<<<<"name", Str(S_Bo)>>,
           <<"content", Dict(<<<<"news_mentions", List(<<N_null_title>>)>>,
                               <<"statements", List(<<St_null, St_tax>>)>>>>)>>,
           <<"semantic_index",
             Dict(<<<<"news_embeddings", List(<<Vec(<<0, 1, 0, 0>>)>>)>>,
                    <<"statement_embeddings", List(<<Vec(<<1, 0, 0, 0>>),
                                                    Vec(<<4, 3, 0, 0>>)>>)>>>>)>>>>)

\* a news mention whose content is null
RecordNullContent ==
    Dict(<<<<"name", Str(S_Bo)>>,
           <<"content", Dict(<<<<"news_mentions", List(<<N_null_content, N_war>>)>>>>)>>,
           <<"semantic_index",
             Dict(<<<<"news_embeddings", List(<<Vec(<<1, 0, 0, 0>>), Vec(<<3, 4, 0, 0>>)>>)>>>>)>>>>)

Files == {Unparsable, RecordFull, RecordNoContent, RecordBadEmbeddings,
          RecordNullFields, RecordNullContent}

MaxFiles == 2

RECURSIVE FileSeqsUpTo(_)
FileSeqsUpTo(n) ==
    IF n = 0 THEN {<<>>}
    ELSE LET shorter == FileSeqsUpTo(n - 1)
         IN shorter \cup {Append(s, f) : s \in {x \in shorter : Len(x) = n - 1}, f \in Files}

\* the records of the files json.load can parse, in glob order
RECURSIVE Parsed(_)
Parsed(files) ==
    IF files = <<>> THEN <<>>
    ELSE (IF Head(files) = Unparsable THEN <<>> ELSE <<Head(files)>>) \o Parsed(Tail(files))

\* the levels of the records load_politician_data logs: a warning when there is no
\* file; otherwise an info or an error per file and an info with the number loaded
LoadLog(files) ==
    IF files = <<>> THEN <<"warning">>
    ELSE [i \in 1..Len(files) |-> IF files[i] = Unparsable THEN "error" ELSE "info"]
             \o <<"info">>

\* what the call logs while loading: nothing when the records are already there
LoadLogOfCall(loaded, files) == IF loaded = <<>> THEN LoadLog(files) ELSE <<>>

\* mutant: the files are loaded by every call
AfterLoadEveryCall(loaded, files) == loaded \o Parsed(files)

\* self.politicians after "if not self.politicians: self.load_politician_data()"
AfterLoad(loaded, files) == IF loaded = <<>> THEN Parsed(files) ELSE loaded

Init ==
    /\ data_dir \in FileSeqsUpTo(MaxFiles)
    /\ politicians = <<>>
    /\ model = "None"
    /\ search_call = Idle
    /\ snippet_call = Idle
    /\ chunk_call = Idle
    /\ cosine_call = Idle
    /\ format_call = Idle
    /\ ScriptsIdle

\* what generate_query_embedding meets: the model loads and embeds, the model cannot
\* be loaded, or embedding the query raises
Outcomes == {"ok", "load_fails", "embed_fails"}

\* mutant: a failure of the embedding model goes unnoticed and a vector is returned
generate_query_embedding_unguarded(query_text, outcome) ==
    IF query_text = <<>> THEN None ELSE Vec(Embed(query_text))

\* generate_query_embedding: None for an empty query, when the model cannot be loaded
\* and when embedding raises; the vector otherwise
generate_query_embedding(query_text, outcome) ==
    IF query_text = <<>> THEN None
    ELSE IF outcome = "ok" THEN Vec(Embed(query_text)) ELSE None

\* search(query, top_k)
Search(query, top_k, outcome) ==
    LET loaded == AfterLoad(politicians, data_dir)
        needs_load == loaded # <<>> /\ query # <<>> /\ model = "None"
        query_embedding == IF loaded = <<>> THEN None
                           ELSE generate_query_embedding(query, outcome)
        all_results == IF query_embedding = None THEN Ok(<<>>)
                       ELSE SearchLoop(loaded, query, query_embedding)
    IN /\ search_call = Idle
       /\ outcome = "load_fails" => needs_load
       /\ outcome = "embed_fails" => loaded # <<>> /\ query # <<>>
       /\ politicians' = loaded
       /\ model' = IF needs_load /\ outcome # "load_fails" THEN "loaded" ELSE model
       /\ search_call' =
             [pc |-> "returned", op |-> "search", query |-> query, top_k |-> top_k,
              outcome |-> outcome, load_log |-> LoadLogOfCall(politicians, data_dir),
              embedded |-> query_embedding # None,
              all_results |-> all_results,
              ret |-> IF IsRaised(all_results) THEN Raised
                      ELSE Ok(TopK(SortedByRelevance(all_results.v), top_k))]
       /\ UNCHANGED <<data_dir, snippet_call, chunk_call, cosine_call, format_call, scriptVars>>

\* keyword_search(query, top_k)
KeywordSearch(query, top_k) ==
    LET loaded == AfterLoad(politicians, data_dir)
        all_results == KeywordLoop(loaded, query)
    IN /\ search_call = Idle
       /\ politicians' = loaded
       /\ search_call' =
             [pc |-> "returned", op |-> "keyword_search", query |-> query, top_k |-> top_k,
              outcome |-> "ok", load_log |-> LoadLogOfCall(politicians, data_dir),
              embedded |-> FALSE,
              all_results |-> all_results,
              ret |-> IF IsRaised(all_results) THEN Raised
                      ELSE Ok(TopK(SortedByRelevance(all_results.v), top_k))]
       /\ UNCHANGED <<data_dir, model, snippet_call, chunk_call, cosine_call, format_call, scriptVars>>

CallSearch == \E query \in Queries, top_k \in TopKs, outcome \in Outcomes :
                 Search(query, top_k, outcome)

CallKeywordSearch == \E query \in Queries, top_k \in TopKs : KeywordSearch(query, top_k)

\* main: the results are printed and the caller goes on to its next call
PrintResults ==
    /\ search_call # Idle
    /\ search_call' = Idle
    /\ UNCHANGED <<data_dir, politicians, model, snippet_call, chunk_call, cosine_call,
                   format_call, scriptVars>>

Next == CallSearch \/ CallKeywordSearch \/ PrintResults

Spec == Init /\ [][Next]_vars

-----------------------------------------------------------------------------
(* Properties of search and keyword_search *)

Returned == search_call.pc = "returned" /\ search_call.ret.t = "ok"

\* C1: the list returned by search and by keyword_search is in non-increasing order
\* of relevance
RankingOrder ==
    Returned =>
        \A i \in 1..(Len(search_call.ret.v) - 1) :
            FloatGe(search_call.ret.v[i].relevance, search_call.ret.v[i + 1].relevance)

\* C1 witness: search returned three or more results that it did not find in order
RankingOrderWitness ==
    /\ Returned
    /\ search_call.op = "search"
    /\ Len(search_call.ret.v) >= 3
    /\ \E i \in 1..(Len(search_call.all_results.v) - 1) :
          FloatGt(search_call.all_results.v[i + 1].relevance,
                  search_call.all_results.v[i].relevance)

\* the threshold of the search mode
Threshold(op) == IF op = "search" THEN Half ELSE ThreeTenths

\* C2: no result of search has a similarity at or below 0.5 and no result of
\* keyword_search a relevance at or below 0.3
ThresholdExclusion ==
    Returned =>
        \A i \in 1..Len(search_call.ret.v) :
            FloatGt(search_call.ret.v[i].relevance, Threshold(search_call.op))

\* the similarities of the news mentions of a record to the query, as search computes them
NewsSimilarities(politician, query) ==
    LET embeddings == Get(Get(politician, "semantic_index", Dict(<<>>)),
                          "news_embeddings", List(<<>>)).v
    IN {cosine_similarity(Vec(Embed(query)), embeddings[j]) : j \in 1..Len(embeddings)}

\* C2 witness: search returned results while a news mention of a loaded record had a
\* similarity of exactly 0.5
ThresholdExclusionWitness ==
    /\ Returned
    /\ search_call.op = "search"
    /\ search_call.ret.v # <<>>
    /\ \E p \in 1..Len(politicians) : Half \in NewsSimilarities(politicians[p], search_call.query)

\* C3: search and keyword_search return no more than top_k results, the first top_k
\* of the sorted list of surviving results, for any integer top_k
AtMostTopK ==
    Returned =>
        LET sorted == SortedByRelevance(search_call.all_results.v)
            top_k == Max(search_call.top_k, 0)
        IN /\ Len(search_call.ret.v) <= top_k
           /\ search_call.ret.v = SubSeq(sorted, 1, Min(top_k, Len(sorted)))

\* C10: search and keyword_search do not raise on a corpus that is partly usable
NeverRaisesOnPartialData ==
    search_call.pc = "returned" => search_call.ret.t = "ok"

\* the embedding model could not be loaded, or raised, during the search that returned
EmbeddingFailed ==
    /\ search_call.pc = "returned"
    /\ search_call.op = "search"
    /\ search_call.outcome # "ok"

\* C11: a search during which the embedding model cannot be loaded or fails returns
\* an empty list and does not raise; what keyword_search returns is decided by the
\* loaded records and the query alone, whatever happened to the embedding model
EmbeddingUnavailable ==
    /\ EmbeddingFailed => search_call.ret = Ok(<<>>)
    /\ (search_call.pc = "returned" /\ search_call.op = "keyword_search") =>
          search_call.all_results = KeywordLoop(Parsed(data_dir), search_call.query)

\* C11 witness: the embedding failed on a corpus in which keyword_search, on the same
\* instance, finds results for the same query
EmbeddingUnavailableWitness ==
    /\ EmbeddingFailed
    /\ model = "None"
    /\ LET found == KeywordLoop(politicians, search_call.query)
       IN found.t = "ok" /\ found.v # <<>>

\* C12: when no record can be loaded, because there is no data file or because none
\* parses, search and keyword_search return an empty list without raising and a
\* record of level warning is logged
DataUnavailable ==
    (search_call.pc = "returned" /\ politicians = <<>>) =>
        /\ search_call.ret = Ok(<<>>)
        /\ \E i \in 1..Len(search_call.load_log) : search_call.load_log[i] = "warning"

\* the relevance of the specification: the distinct query terms that occur in one of
\* the lowercased texts of the entry, over the distinct query terms
DistinctTermRelevance(query_terms, texts) ==
    LET terms == {query_terms[i] : i \in 1..Len(query_terms)}
        present == {t \in terms : \E i \in 1..Len(texts) : Contains(t, texts[i])}
    IN IF terms = {} THEN Zero ELSE Rat(Cardinality(present), Cardinality(terms))

\* the lowercased texts of the news mentions and then of the statements of a record
EntryTexts(politician) ==
    LET Items(kind) == IF HasContent(politician, kind)
                       THEN Item(Item(politician, "content"), kind).v ELSE <<>>
        news == Items("news_mentions")
        statements == Items("statements")
    IN [i \in 1..Len(news) |-> <<Lower(Get(news[i], "title", EmptyStr).v),
                                  Lower(Get(news[i], "content", EmptyStr).v)>>]
       \o [i \in 1..Len(statements) |-> <<Lower(Get(statements[i], "text", EmptyStr).v)>>]

\* the relevances above the keyword threshold, entry by entry, as the specification
\* defines them
DistinctTermScores(loaded, query) ==
    LET scores == Flatten([p \in 1..Len(loaded) |->
                     LET texts == EntryTexts(loaded[p])
                     IN [i \in 1..Len(texts) |->
                            DistinctTermRelevance(Split(Lower(query)), texts[i])]])
    IN SelectSeq(scores, LAMBDA r : FloatGt(r, ThreeTenths))

\* C13: in keyword_search the relevance of an entry is the number of distinct query
\* terms that occur in its lowercased text over the number of distinct query terms,
\* also for queries with repeated terms and with terms of two characters or fewer
KeywordRelevanceDistinctTerms ==
    (search_call.pc = "returned" /\ search_call.op = "keyword_search"
        /\ search_call.all_results.t = "ok") =>
        [i \in 1..Len(search_call.all_results.v) |-> search_call.all_results.v[i].relevance]
            = DistinctTermScores(politicians, search_call.query)

-----------------------------------------------------------------------------
(* Properties of the record format_politician_data returns *)

\* format_politician_data returned a record, neither None nor an exception
Formatted ==
    /\ format_call.pc = "returned"
    /\ format_call.ret.t = "ok"
    /\ format_call.ret.v # None

SectionOrder ==
    <<"biography", "news_article", "wikipedia_content", "wikipedia_section",
      "ballotpedia_section", "voting_record", "speech", "social_media">>

SectionRank(type) == CHOOSE i \in 1..Len(SectionOrder) : SectionOrder[i] = type

\* C14: the entries come in the order of the sections (biography, news_article,
\* wikipedia_content, wikipedia_section, ballotpedia_section, voting_record, speech,
\* social_media), and the wikipedia_content entries have chunk_index 0, 1, 2, ...
EntriesInSectionOrder ==
    Formatted =>
        LET entries == format_call.ret.v.entries
            content == SelectType(entries, "wikipedia_content")
        IN /\ \A i \in 1..Len(entries) : \A j \in i..Len(entries) :
                 SectionRank(entries[i].type) <= SectionRank(entries[j].type)
           /\ \A k \in 1..Len(content) : content[k].chunk_index = k - 1

\* C14 witness: a record with entries of six types or more and two chunks
EntriesInSectionOrderWitness ==
    /\ Formatted
    /\ LET entries == format_call.ret.v.entries
       IN /\ Cardinality({entries[i].type : i \in 1..Len(entries)}) >= 6
          /\ Len(SelectType(entries, "wikipedia_content")) >= 2

\* a text that is a string, or chunk, with something in it
NonEmptyText(text) == text.t \in {"str", "text"} /\ text.v # <<>>

\* C15: a section that is present but empty contributes no entry, so every entry of
\* the returned record has a non-empty text
EveryEntryHasText ==
    Formatted =>
        \A i \in 1..Len(format_call.ret.v.entries) :
            NonEmptyText(format_call.ret.v.entries[i].text)

\* C16: every entry, of every type, has a source_url that is a string, the empty
\* string when the provenance is unknown; it is never null and never absent
EveryEntryHasSourceUrl ==
    Formatted =>
        \A i \in 1..Len(format_call.ret.v.entries) :
            LET entry == format_call.ret.v.entries[i]
            IN "source_url" \in DOMAIN entry /\ IsStr(entry.source_url)

\* the timestamp of an entry whose source has none of its own: the scraped_at of the
\* record if there is one, the time of the call otherwise
BackfilledTimestamp(raw_data) ==
    IF HasKey(raw_data, "scraped_at") THEN Item(raw_data, "scraped_at") ELSE Str(S_now)

\* the timestamps the news entries are to have, article by article: published_date
\* where the article has one that is not empty, the backfilled timestamp otherwise
RECURSIVE NewsTimestamps(_, _)
NewsTimestamps(articles, raw_data) ==
    IF articles = <<>> THEN <<>>
    ELSE LET article == Head(articles)
             content == Get(article, "content", Get(article, "description", EmptyStr))
             published == Get(article, "published_date", EmptyStr)
         IN (IF ~Truthy(content) THEN <<>>
             ELSE IF Truthy(published) THEN <<published>>
             ELSE <<BackfilledTimestamp(raw_data)>>)
            \o NewsTimestamps(Tail(articles), raw_data)

\* C17: every entry has a timestamp; where the source has none of its own, a news
\* article without published_date or with an empty one included, it is the scraped_at
\* of the record if present and the time of the call otherwise
TimestampBackfilled ==
    Formatted =>
        LET raw_data == format_call.raw_data
            entries == format_call.ret.v.entries
            news == SelectType(entries, "news_article")
            articles == Get(raw_data, "news_articles", List(<<>>))
        IN /\ \A i \in 1..Len(entries) :
                 /\ "timestamp" \in DOMAIN entries[i]
                 /\ entries[i].type # "news_article" =>
                       entries[i].timestamp = BackfilledTimestamp(raw_data)
           /\ [i \in 1..Len(news) |-> news[i].timestamp]
                 = NewsTimestamps(IF IsList(articles) THEN articles.v ELSE <<>>, raw_data)

\* C18: two calls of format_politician_data on the same raw record, with scraped_at
\* present, return equal records: the same id and the same entries in the same order
FormatDeterministic ==
    (format_call.pc = "repeated" /\ HasKey(format_call.raw_data, "scraped_at")) =>
        format_call.ret = format_call.first

-----------------------------------------------------------------------------
(* Properties of create_content_snippet: the anchor and the empty result *)

\* the 0-based positions at which a query term of 3 characters or more stands as a
\* whole word in the content, case ignored
WholeWordMatches(content, query) ==
    LET terms == Split(Lower(query))
        lowered == Lower(content)
    IN { p \in 0..(Len(content) - 1) :
           \E k \in 1..Len(terms) :
              /\ Len(terms[k]) >= 3
              /\ p + Len(terms[k]) <= Len(content)
              /\ SubSeq(lowered, p + 1, p + Len(terms[k])) = terms[k]
              /\ ~IsWordAt(lowered, p - 1)
              /\ ~IsWordAt(lowered, p + Len(terms[k])) }

\* C19: the snippet is anchored on a whole-word match of a query term of 3 characters
\* or more, and no other such match is nearer to len(content) // 2; in the document
\* of 500 characters with matches at 10 and 480 the anchor is 480
SnippetAnchoredNearMiddle ==
    (snippet_call.pc = "returned" /\ snippet_call.window.found) =>
        LET content == snippet_call.content
            matches == WholeWordMatches(content, snippet_call.query)
            anchor == snippet_call.window.closest_pos
            middle == Len(content) \div 2
        IN /\ anchor \in matches
           /\ \A p \in matches : Abs(anchor - middle) <= Abs(p - middle)
           /\ snippet_call.window.start <= anchor /\ anchor < snippet_call.window.end
           /\ content = BudgetDocument => matches = {10, 480} /\ anchor = 480

\* C19 witness: the document of 500 characters was searched and the snippet returned
SnippetAnchoredNearMiddleWitness ==
    /\ snippet_call.pc = "returned"
    /\ snippet_call.content = BudgetDocument
    /\ snippet_call.window.found
    /\ snippet_call.window.term_positions = <<10, 480>>
    /\ snippet_call.ret # <<>>

\* C20: create_content_snippet returns the empty string exactly when no query term of
\* 3 characters or more stands as a whole word in the content, case ignored
SnippetEmptyIffNoMatch ==
    snippet_call.pc = "returned" =>
        (snippet_call.ret = <<>>
            <=> WholeWordMatches(snippet_call.content, snippet_call.query) = {})

\* C20 witness: the only term of the query is 2 characters long and stands as a whole
\* word in the content, and the empty string was returned
SnippetEmptyIffNoMatchWitness ==
    /\ snippet_call.pc = "returned"
    /\ snippet_call.ret = <<>>
    /\ Len(Split(Lower(snippet_call.query))) = 1
    /\ FindAll(Split(Lower(snippet_call.query))[1], Lower(snippet_call.content)) # <<>>

-----------------------------------------------------------------------------
(* Further properties of search and keyword_search *)

\* the results of relevance r, in the order they have in the list
OfRelevance(results, r) == SelectSeq(results, LAMBDA x : x.relevance = r)

IsPrefix(s, t) == Len(s) <= Len(t) /\ s = SubSeq(t, 1, Len(s))

\* C21: results of equal relevance are returned in the order in which their entries
\* were visited (records in load order, entries in their order within a record)
StableTieBreak ==
    Returned =>
        \A i \in 1..Len(search_call.ret.v) :
            LET r == search_call.ret.v[i].relevance
            IN IsPrefix(OfRelevance(search_call.ret.v, r),
                        OfRelevance(search_call.all_results.v, r))

\* C21 witness: two different results of equal relevance were returned by a call
\* whose sort had to move a result
StableTieBreakWitness ==
    /\ Returned
    /\ \E i \in 1..(Len(search_call.ret.v) - 1) :
          /\ search_call.ret.v[i].relevance = search_call.ret.v[i + 1].relevance
          /\ search_call.ret.v[i] # search_call.ret.v[i + 1]
    /\ \E i \in 1..(Len(search_call.all_results.v) - 1) :
          FloatGt(search_call.all_results.v[i + 1].relevance,
                  search_call.all_results.v[i].relevance)

\* C22: every result of search and of keyword_search has the fields politician, type,
\* content, relevance and source, whatever kind of entry it was built from
ResultsSameShape ==
    Returned =>
        \A i \in 1..Len(search_call.ret.v) :
            {"politician", "type", "content", "relevance", "source"}
                \subseteq DOMAIN search_call.ret.v[i]

\* the news mentions or statements of a record, and the embeddings stored for them
ItemsOf(politician, kind) == Get(Get(politician, "content", Dict(<<>>)), kind, List(<<>>))

StoredEmbeddings(politician, kind) ==
    Get(Get(politician, "semantic_index", Dict(<<>>)), EmbeddingsKey(kind), List(<<>>))

\* no usable embedding is stored for item i: the list of embeddings is missing or of
\* another length than the list of items, or the embedding of the item is null
EmbeddingMissing(politician, kind, i) ==
    LET embeddings == StoredEmbeddings(politician, kind)
    IN \/ ~IsList(embeddings)
       \/ Len(embeddings.v) # Len(ItemsOf(politician, kind).v)
       \/ embeddings.v[i] = None

\* the text of a news mention or statement that is scored
ItemText(kind, item) ==
    IF kind = "news_mentions" THEN Get(item, "content", EmptyStr)
    ELSE Get(item, "text", EmptyStr)

\* the result list holds a result built from the item
ResultOf(results, kind, item) ==
    \E r \in 1..Len(results) :
        IF kind = "news_mentions"
        THEN results[r].type = "news" /\ results[r].title = Get(item, "title", EmptyStr)
        ELSE results[r].type = "statement" /\ results[r].content = ItemText(kind, item)

\* C23: in search an entry without a stored embedding is embedded on first use and
\* scored: if the similarity of its text to the query exceeds the threshold, the
\* entry is among the results found
EveryEntryScored ==
    (search_call.pc = "returned" /\ search_call.op = "search" /\ search_call.embedded
        /\ search_call.all_results.t = "ok") =>
        \A p \in 1..Len(politicians) : \A kind \in {"news_mentions", "statements"} :
            IsList(ItemsOf(politicians[p], kind)) =>
                \A i \in 1..Len(ItemsOf(politicians[p], kind).v) :
                    LET item == ItemsOf(politicians[p], kind).v[i]
                        text == ItemText(kind, item)
                    IN (/\ IsDict(item)
                        /\ IsStr(text)
                        /\ EmbeddingMissing(politicians[p], kind, i)
                        /\ AboveSemanticThreshold(
                              cosine_similarity(Vec(Embed(search_call.query)),
                                                Vec(Embed(text.v)))))
                       => ResultOf(search_call.all_results.v, kind, item)

\* C28: each data file contributes at most one record to self.politicians: the
\* corpus is empty or holds the parsable files once each, in their order
EachFileLoadedOnce ==
    /\ politicians \in {<<>>, Parsed(data_dir)}
    /\ Len(politicians) <= Len(data_dir)

\* C28 witness: two calls or more have been made on an instance with two parsable
\* files, and the corpus holds two records
EachFileLoadedOnceWitness ==
    /\ search_call.pc = "returned"
    /\ search_call.load_log = <<>>
    /\ Len(politicians) = 2
    /\ Len(data_dir) = 2

-----------------------------------------------------------------------------
(* generate_query_embedding over the calls of one instance: search calls it once *)
(* per call with the query, and the texts the model is run on are counted.       *)

MaxRuns == 2

EmbedTexts == {<<>>, S_tax, S_tax_cut, S_war}

EmbedInit ==
    /\ embedder = [model |-> "None",
                   runs |-> [text \in EmbedTexts |-> 0],
                   call |-> Idle]
    /\ CallsIdle
    /\ SearchIdle
    /\ records = Idle
    /\ pipeline = Idle
    /\ ingest_call = Idle
    /\ merge_call = Idle
    /\ loader = Idle

\* generate_query_embedding(query_text): nothing is done for an empty text; the model
\* is loaded if it is not there; then the tokenizer and the model are run on the text
GenerateQueryEmbedding(query_text, outcome) ==
    LET needs_load == query_text # <<>> /\ embedder.model = "None"
        runs_model == query_text # <<>> /\ outcome # "load_fails"
    IN /\ outcome = "load_fails" => needs_load
       /\ outcome = "embed_fails" => query_text # <<>>
       /\ embedder.runs[query_text] < MaxRuns
       /\ embedder' =
             [model |-> IF needs_load /\ outcome # "load_fails" THEN "loaded"
                        ELSE embedder.model,
              runs |-> IF runs_model
                       THEN [embedder.runs EXCEPT ![query_text] = @ + 1]
                       ELSE embedder.runs,
              call |-> [pc |-> "returned", query_text |-> query_text,
                        ret |-> generate_query_embedding(query_text, outcome)]]
       /\ UNCHANGED <<callVars, searchVars, records, pipeline, ingest_call, merge_call, loader>>

CallGenerateQueryEmbedding ==
    \E query_text \in EmbedTexts, outcome \in Outcomes :
        GenerateQueryEmbedding(query_text, outcome)

EmbedNext == CallGenerateQueryEmbedding

EmbedSpec == EmbedInit /\ [][EmbedNext]_vars

\* C24: over all the calls made on one instance the embedding model is run at most
\* once on each distinct text; a text embedded before is served from a cache
EmbeddedOncePerText ==
    \A text \in EmbedTexts : embedder.runs[text] <= 1

-----------------------------------------------------------------------------
(* What the passes store: process_item of the scrapy pipeline, save_data of the *)
(* scraper and process_all_files of the formatter                               *)

NoRecord == [t |-> "NoRecord"]

S_al_b == <<"A", "l", " ", "B">>
S_al__b == <<"a", "l", " ", "-", "b", "!">>
S_news == <<"n", "e", "w", "s">>
S_x == <<"x">>
S_formatted_ == <<"f", "o", "r", "m", "a", "t", "t", "e", "d", "_">>
S_json == <<".", "j", "s", "o", "n">>

\* s.strip(chars): the characters of chars are removed at both ends
RECURSIVE LStrip(_, _)
LStrip(s, chars) ==
    IF s # <<>> /\ Head(s) \in chars THEN LStrip(Tail(s), chars) ELSE s

RECURSIVE RStrip(_, _)
RStrip(s, chars) ==
    IF s # <<>> /\ s[Len(s)] \in chars THEN RStrip(SubSeq(s, 1, Len(s) - 1), chars) ELSE s

Strip(s, chars) == RStrip(LStrip(s, chars), chars)

\* re.sub(r'[-\s]+', '_', s): every run of hyphens and whitespace becomes one underscore
RECURSIVE CollapseRuns(_)
CollapseRuns(s) ==
    IF s = <<>> THEN <<>>
    ELSE IF Head(s) \in {"-", " "}
         THEN <<"_">> \o CollapseRuns(LStrip(s, {"-", " "}))
         ELSE <<Head(s)>> \o CollapseRuns(Tail(s))

\* the file name save_data derives from the name of the politician
safe_filename(name) ==
    CollapseRuns(Lower(Strip(SelectSeq(name, LAMBDA c : c \in WordChars \union {" ", "-"}),
                             {" "})))

output_file(name) == safe_filename(name) \o S_json

\* _generate_id(adapter)
generate_id(name, source_type) ==
    Strip([i \in 1..Len(name) |-> IF Lower(name)[i] = " " THEN "_" ELSE Lower(name)[i]]
          \o <<"_">> \o source_type, {"_"})

ScraperNames == {S_al_b, S_al__b, S_x}

OutputFiles == {output_file(name) : name \in ScraperNames}

\* formatted_<basename>
formatted_file(f) == S_formatted_ \o f

basename(g) == SubSeq(g, Len(S_formatted_) + 1, Len(g))

FormattedFiles == {formatted_file(f) : f \in OutputFiles}

\* what two runs of scrape_news can leave in self.data["news_articles"]
ScrapedNews ==
    { List(<< Dict(<<<<"title", Str(S_title)>>, <<"content", Str(S_body)>>,
                     <<"url", Str(S_url)>>>>) >>),
      List(<< Dict(<<<<"title", Str(S_title)>>, <<"content", Str(S_remarks)>>,
                     <<"url", Str(S_url)>>>>) >>) }

\* the items a spider yields
Items ==
    [name : {S_al_b}, source_type : {<<>>, S_news}, id : {<<>>, S_x},
     statements : {<<"s1">>, <<"s2">>}]

ItemIds == {generate_id(item.name, item.source_type) : item \in Items} \union {S_x}

RecordsInit ==
    /\ records = [items |-> [id \in ItemIds |-> NoRecord],
                  files |-> [f \in OutputFiles |-> NoRecord],
                  formatted |-> [g \in FormattedFiles |-> NoRecord]]
    /\ CallsIdle
    /\ SearchIdle
    /\ embedder = Idle
    /\ pipeline = Idle
    /\ ingest_call = Idle
    /\ merge_call = Idle
    /\ loader = Idle

recordsOthers == <<callVars, searchVars, embedder, pipeline, ingest_call, merge_call, loader>>

\* AipoliticianPipeline.process_item(item, spider)
process_item(item, now) ==
    LET id == IF item.id = <<>> THEN generate_id(item.name, item.source_type)
              ELSE item.id
        adapter == [name |-> item.name, source_type |-> item.source_type, id |-> id,
                    statements |-> item.statements, scraped_at |-> now]
    IN /\ records' = [records EXCEPT !.items[id] = adapter]
       /\ UNCHANGED recordsOthers

ProcessItem == \E item \in Items : process_item(item, S_now)

\* PoliticianScraper(name), its scrape_news and save_data
save_data(name, news_articles, now) ==
    LET data == Dict(<<<<"name", Str(name)>>, <<"news_articles", news_articles>>,
                       <<"scraped_at", Str(now)>>>>)
    IN /\ records' = [records EXCEPT !.files[output_file(name)] = data]
       /\ UNCHANGED recordsOthers

SaveData ==
    \E name \in ScraperNames, news_articles \in ScrapedNews :
        save_data(name, news_articles, S_scraped)

\* process_all_files with the output directory of the scraper as input directory:
\* every file is formatted and written to formatted_<basename>
process_all_files(uuid_hex, now) ==
    LET formatted_data(f) == format_politician_data(records.files[f], uuid_hex[f], now)
        Written(f) ==
            /\ records.files[f] # NoRecord
            /\ ~IsRaised(formatted_data(f))
            /\ formatted_data(f).v # None
    IN /\ \E f \in OutputFiles : records.files[f] # NoRecord
       /\ records' = [records EXCEPT !.formatted =
                         [g \in FormattedFiles |->
                             IF Written(basename(g)) THEN formatted_data(basename(g)).v
                             ELSE records.formatted[g]]]
       /\ UNCHANGED recordsOthers

ProcessAllFiles ==
    \E uuid_hex \in [OutputFiles -> UuidPrefixes] : process_all_files(uuid_hex, Str(S_now))

RecordsNext == ProcessItem \/ SaveData \/ ProcessAllFiles

RecordsSpec == RecordsInit /\ [][RecordsNext]_vars

\* the entries of a stored record, in the order they were stored
StoredEntries(record) ==
    IF record = NoRecord THEN <<>>
    ELSE IF "statements" \in DOMAIN record THEN record.statements
    ELSE IF "entries" \in DOMAIN record THEN record.entries
    ELSE Item(record, "news_articles").v

\* C25: the records are append-only across the passes: a pass leaves every entry that
\* an earlier pass stored under an id or a file name in place, and only appends to them
RecordsAppendOnly ==
    [][/\ \A id \in ItemIds :
             IsPrefix(StoredEntries(records.items[id]), StoredEntries(records'.items[id]))
       /\ \A f \in OutputFiles :
             IsPrefix(StoredEntries(records.files[f]), StoredEntries(records'.files[f]))
       /\ \A g \in FormattedFiles :
             IsPrefix(StoredEntries(records.formatted[g]),
                      StoredEntries(records'.formatted[g]))]_vars

-----------------------------------------------------------------------------
(* run_pipeline.py: main, statement by statement *)

S_sample == <<"s", "a", "m", "p", "l", "e">>
S_a == <<"a">>
S_b == <<"b">>

\* pipeline.exit is the exit code of the process once pipeline.pc is "exited": 0 unless
\* sys.exit(1) was called

\* args.reset, the files glob finds in the data directory, and args.exclude
PipelineArgs ==
    [reset : BOOLEAN,
     data_files : {<<>>, <<S_sample>>, <<S_a>>, <<S_a, S_sample>>, <<S_b, S_a>>},
     exclude : {{S_sample}, {}}]

\* what subprocess.run can do: return with exit code 0, with another code, or raise
CommandOutcomes == {"zero", "nonzero", "raises"}

\* mutant: the exit code of the command is not looked at
run_command_any_code(outcome) == outcome # "raises"

\* run_command(cmd, description)
run_command(outcome) == outcome = "zero"

PipelineInit ==
    /\ \E args \in PipelineArgs :
          pipeline = [pc |-> "start", args |-> args, commands |-> <<>>,
                      filtered_files |-> <<>>, completed |-> FALSE, exit |-> 0]
    /\ CallsIdle
    /\ SearchIdle
    /\ embedder = Idle
    /\ records = Idle
    /\ ingest_call = Idle
    /\ merge_call = Idle
    /\ loader = Idle

pipelineOthers == <<callVars, searchVars, embedder, records, ingest_call, merge_call, loader>>

\* the command of a stage is run; main goes on if it succeeded and exits with 1 if not
RunStage(name, outcome, next_pc) ==
    pipeline' = [pipeline EXCEPT
                    !.commands = Append(@, [name |-> name, outcome |-> outcome]),
                    !.pc = IF run_command(outcome) THEN next_pc ELSE "exited",
                    !.exit = IF run_command(outcome) THEN @ ELSE 1]

\* if args.reset: diagnose_chroma(), whose result is not looked at
DiagnoseChroma ==
    /\ pipeline.pc = "start"
    /\ pipeline.args.reset
    /\ \E outcome \in CommandOutcomes :
          pipeline' = [pipeline EXCEPT
                          !.commands = Append(@, [name |-> "diagnose", outcome |-> outcome]),
                          !.pc = "diagnosed"]
    /\ UNCHANGED pipelineOthers

SetupChroma ==
    /\ pipeline.pc = (IF pipeline.args.reset THEN "diagnosed" ELSE "start")
    /\ \E outcome \in CommandOutcomes : RunStage("setup", outcome, "find")
    /\ UNCHANGED pipelineOthers

\* the data files are filtered; main exits with 1 if none is left
FindDataFiles ==
    /\ pipeline.pc = "find"
    /\ LET filtered_files ==
               SelectSeq(pipeline.args.data_files, LAMBDA f : f \notin pipeline.args.exclude)
       IN pipeline' = [pipeline EXCEPT
                          !.filtered_files = filtered_files,
                          !.pc = IF filtered_files = <<>> THEN "exited" ELSE "ingest",
                          !.exit = IF filtered_files = <<>> THEN 1 ELSE @]
    /\ UNCHANGED pipelineOthers

IngestDataFiles ==
    /\ pipeline.pc = "ingest"
    /\ \E outcome \in CommandOutcomes : RunStage("ingest", outcome, "query")
    /\ UNCHANGED pipelineOthers

TestQuery ==
    /\ pipeline.pc = "query"
    /\ \E outcome \in CommandOutcomes : RunStage("query", outcome, "complete")
    /\ UNCHANGED pipelineOthers

\* 'Pipeline completed successfully' is printed and main returns
PipelineCompleted ==
    /\ pipeline.pc = "complete"
    /\ pipeline' = [pipeline EXCEPT !.completed = TRUE, !.pc = "exited", !.exit = 0]
    /\ UNCHANGED pipelineOthers

PipelineNext ==
    \/ DiagnoseChroma
    \/ SetupChroma
    \/ FindDataFiles
    \/ IngestDataFiles
    \/ TestQuery
    \/ PipelineCompleted

PipelineSpec == PipelineInit /\ [][PipelineNext]_vars

\* the three stages that were started, in the order they were started
StagesRun == SelectSeq(pipeline.commands, LAMBDA c : c.name # "diagnose")

StageOrder == <<"setup", "ingest", "query">>

\* C26: the stages are started in the order setup, ingest, query, each one only after
\* the one before it exited with code 0; after a stage that failed nothing is started
\* and the exit code is 1; the success message is printed only after three stages
\* that exited with code 0
StagesInOrderAbortOnFailure ==
    /\ Len(StagesRun) <= Len(StageOrder)
    /\ \A i \in 1..Len(StagesRun) :
          /\ StagesRun[i].name = StageOrder[i]
          /\ i < Len(StagesRun) => StagesRun[i].outcome = "zero"
          /\ StagesRun[i].outcome # "zero" => pipeline.exit = 1 /\ pipeline.pc = "exited"
    /\ pipeline.completed =>
          /\ Len(StagesRun) = Len(StageOrder)
          /\ \A i \in 1..Len(StagesRun) : StagesRun[i].outcome = "zero"
    /\ pipeline.pc = "exited" /\ pipeline.exit = 0 => pipeline.completed

\* C26 witness: after a reset request whose diagnostics failed, setup succeeded and the
\* ingestion exited with a code other than 0: the pipeline has exited with 1
StagesInOrderAbortOnFailureWitness ==
    /\ pipeline.pc = "exited"
    /\ pipeline.exit = 1
    /\ pipeline.args.reset
    /\ pipeline.commands[1].outcome = "nonzero"
    /\ Len(StagesRun) = 2
    /\ StagesRun[2].outcome = "nonzero"

-----------------------------------------------------------------------------
(* ingest_data.py: ingest_politician(entry, collection). The keys of the entry are *)
(* str values here, since the document ids are formatted from them.                *)

K_id == <<"i", "d">>
K_name == <<"n", "a", "m", "e">>
K_raw == <<"r", "a", "w">>
K_raw_content == <<"r", "a", "w", "_", "c", "o", "n", "t", "e", "n", "t">>
K_speeches == <<"s", "p", "e", "e", "c", "h", "e", "s">>
K_speeches_2 == <<"s", "p", "e", "e", "c", "h", "e", "s", "_", "2">>
K_timestamp == <<"t", "i", "m", "e", "s", "t", "a", "m", "p">>
K_source_url == <<"s", "o", "u", "r", "c", "e", "_", "u", "r", "l">>
K_links == <<"l", "i", "n", "k", "s">>
K_full_name == <<"f", "u", "l", "l", "_", "n", "a", "m", "e">>
K_date_of_birth ==
    <<"d", "a", "t", "e", "_", "o", "f", "_", "b", "i", "r", "t", "h">>
K_political_affiliation ==
    <<"p", "o", "l", "i", "t", "i", "c", "a", "l", "_",
      "a", "f", "f", "i", "l", "i", "a", "t", "i", "o", "n">>

SKIP_FIELDS ==
    {K_id, K_name, K_full_name, K_date_of_birth, K_political_affiliation, K_timestamp,
     K_source_url, K_links}

S_p1 == <<"p", "1">>
S_blank == <<" ", " ">>

\* str(idx) for an index below ten
StrOfIndex(idx) == <<(<<"0", "1", "2", "3", "4", "5", "6", "7", "8", "9">>)[idx + 1]>>

\* field_data.strip() is not empty
NotBlank(text) == Strip(text, {" "}) # <<>>

\* the entries ingested: each key is there or not, with one of a few values
IngestEntries ==
    { Dict(i \o n \o rc \o r \o sp \o s1) :
        i \in {Absent, Field(K_id, Str(S_p1))},
        n \in {Field(K_name, Str(S_name))},
        rc \in {Absent, Field(K_raw_content, Str(S_remarks)), Field(K_raw_content, EmptyStr)},
        r \in {Absent, Field(K_raw, Str(S_bio)), Field(K_raw, Str(S_blank))},
        sp \in {Absent, Field(K_speeches, Str(S_body)),
               Field(K_speeches, List(<<Str(S_title), EmptyStr, Str(S_body)>>))},
        s1 \in {Absent, Field(K_speeches_2, Str(S_bio))} }

\* the id of the raw_content document, if there is one
RawContentIds(entry, politician_id) ==
    IF HasKey(entry, K_raw_content) /\ Truthy(Item(entry, K_raw_content))
    THEN <<politician_id \o <<"_">> \o K_raw>>
    ELSE <<>>

\* the ids of the documents of one field: one per item of a list that is not empty, one
\* for a string that is not blank
FieldIds(entry, politician_id, field_name) ==
    LET field_data == Item(entry, field_name)
    IN IF field_name \in SKIP_FIELDS \/ field_name = K_raw_content THEN <<>>
       ELSE IF IsList(field_data)
       THEN Flatten([idx \in 1..Len(field_data.v) |->
                        IF ~Truthy(field_data.v[idx]) THEN <<>>
                        ELSE <<politician_id \o <<"_">> \o field_name \o <<"_">>
                               \o StrOfIndex(idx - 1)>>])
       ELSE IF IsStr(field_data) /\ NotBlank(field_data.v)
       THEN <<politician_id \o <<"_">> \o field_name>>
       ELSE <<>>

\* ingest_politician(entry, collection): the ids given to collection.add, call by call,
\* and the sum of the stats returned; collection.add raises or not
ingest_politician(entry, add_raises) ==
    IF ~HasKey(entry, K_id) THEN [ids |-> <<>>, stats |-> 0]
    ELSE LET politician_id == Item(entry, K_id).v
             ids == RawContentIds(entry, politician_id)
                    \o Flatten([k \in 1..Len(entry.v) |->
                                   FieldIds(entry, politician_id, entry.v[k][1])])
         IN [ids |-> ids, stats |-> IF add_raises THEN 0 ELSE Len(ids)]

IngestInit ==
    /\ \E entry \in IngestEntries : ingest_call = [pc |-> "called", entry |-> entry]
    /\ CallsIdle
    /\ SearchIdle
    /\ embedder = Idle
    /\ records = Idle
    /\ pipeline = Idle
    /\ merge_call = Idle
    /\ loader = Idle

CallIngestPolitician ==
    /\ ingest_call.pc = "called"
    /\ \E add_raises \in BOOLEAN :
          ingest_call' = [pc |-> "returned", entry |-> ingest_call.entry,
                          ret |-> ingest_politician(ingest_call.entry, add_raises)]
    /\ UNCHANGED <<callVars, searchVars, embedder, records, pipeline, merge_call, loader>>

IngestNext == CallIngestPolitician

IngestSpec == IngestInit /\ [][IngestNext]_vars

\* C27: the document ids that one call of ingest_politician gives to collection.add are
\* pairwise distinct
DocumentIdsDistinct ==
    ingest_call.pc = "returned" =>
        LET ids == ingest_call.ret.ids
        IN \A i \in 1..Len(ids) : \A j \in 1..Len(ids) : ids[i] = ids[j] => i = j

-----------------------------------------------------------------------------
(* run.py: merge_data_files(politician_name) over the files of the data directory *)

S_al_b_json == <<"a", "l", "-", "b", ".", "j", "s", "o", "n">>
S_al_b_1_json == <<"a", "l", "-", "b", "-", "1", ".", "j", "s", "o", "n">>
S_old_al_b_json == <<"o", "l", "d", "-", "a", "l", "-", "b", ".", "j", "s", "o", "n">>
S_x_json == <<"x", ".", "j", "s", "o", "n">>

DataDirFiles == {S_al_b_json, S_al_b_1_json, S_old_al_b_json, S_x_json}

\* what a data file can hold
D_first ==
    Dict(<<<<"id", Str(S_p1)>>, <<"name", Str(S_al_b)>>,
           <<"speeches", List(<<Str(S_title)>>)>>>>)
D_second ==
    Dict(<<<<"name", Str(S_al_b)>>, <<"speeches", List(<<Str(S_body)>>)>>,
           <<"statements", List(<<Str(S_bio)>>)>>>>)
D_text == Dict(<<<<"id", Str(S_p1)>>, <<"speeches", Str(S_body)>>>>)

FileContents == {NoRecord, Unparsable, D_first, D_second, D_text}

\* the listings of a set of files that glob can give
Orders(files) ==
    {order \in [1..Cardinality(files) -> files] :
        \A i, j \in 1..Cardinality(files) : order[i] = order[j] => i = j}

EndsWith(s, suffix) ==
    Len(suffix) <= Len(s) /\ SubSeq(s, Len(s) - Len(suffix) + 1, Len(s)) = suffix

\* politician_name.lower().replace(' ', '-')
simplified_name(politician_name) ==
    [i \in 1..Len(politician_name) |->
        IF politician_name[i] = " " THEN "-" ELSE LowerChar(politician_name[i])]

\* the names data_dir.glob(f"*{simplified_name}*.json") matches
Matching(files, politician_name) ==
    {f \in DataDirFiles :
        /\ files[f] # NoRecord
        /\ EndsWith(f, S_json)
        /\ Contains(simplified_name(politician_name), SubSeq(f, 1, Len(f) - Len(S_json)))}

\* validate_data(file_path)
validate_data(content) ==
    IF content = Unparsable THEN FALSE
    ELSE HasKey(content, "id") /\ HasKey(content, "name")

SetItem(d, k, v) ==
    IF HasKey(d, k) THEN Dict(MapPairs(d.v, k, v)) ELSE Dict(Append(d.v, <<k, v>>))

\* merged_data[key].extend(data[key]) for key in speeches, statements, when data[key]
\* is there and not empty; extending something that is no list raises, and a str
\* extends a list by its characters
ExtendKey(merged, data, key) ==
    IF IsRaised(merged) THEN Raised
    ELSE IF ~(HasKey(data, key) /\ Truthy(Item(data, key))) THEN merged
    ELSE LET target == IF HasKey(merged, key) THEN Item(merged, key) ELSE List(<<>>)
             added == IF IsList(Item(data, key)) THEN Item(data, key).v
                      ELSE [i \in 1..Len(Item(data, key).v) |-> Str(<<Item(data, key).v[i]>>)]
         IN IF ~IsList(target) THEN Raised
            ELSE SetItem(merged, key, List(target.v \o added))

\* for key, value in data.items(): copied if missing in the merged data and not empty
RECURSIVE CopyMissing(_, _, _)
CopyMissing(merged, pairs, k) ==
    IF IsRaised(merged) THEN Raised
    ELSE IF k > Len(pairs) THEN merged
    ELSE CopyMissing(IF ~HasKey(merged, pairs[k][1]) /\ Truthy(pairs[k][2])
                     THEN SetItem(merged, pairs[k][1], pairs[k][2]) ELSE merged,
                     pairs, k + 1)

\* the first object is the base and the others are merged into it one by one
RECURSIVE MergeLoop(_, _, _)
MergeLoop(merged_data, data_objects, k) ==
    IF IsRaised(merged_data) \/ k > Len(data_objects) THEN merged_data
    ELSE MergeLoop(CopyMissing(ExtendKey(ExtendKey(merged_data, data_objects[k], "speeches"),
                                         data_objects[k], "statements"),
                               data_objects[k].v, 1),
                   data_objects, k + 1)

\* the clean up: every matching file but the output file is deleted
CleanUp(files, matching_files, output_filename) ==
    [f \in DataDirFiles |->
        IF f \in {matching_files[i] : i \in 1..Len(matching_files)} /\ f # output_filename
        THEN NoRecord ELSE files[f]]

\* merge_data_files(politician_name), with the files in the order glob lists them: the
\* files afterwards and the value returned
merge_data_files(files, politician_name, matching_files) ==
    LET output_filename == simplified_name(politician_name) \o S_json
        loaded == SelectSeq(matching_files, LAMBDA f : files[f] # Unparsable)
        data_objects == [i \in 1..Len(loaded) |-> files[loaded[i]]]
        merged_data == MergeLoop(data_objects[1], data_objects, 2)
        written == [files EXCEPT ![output_filename] = merged_data]
    IN IF matching_files = <<>> THEN [files |-> files, ret |-> Ok(FALSE)]
       ELSE IF Len(matching_files) = 1
       THEN [files |-> files, ret |-> Ok(validate_data(files[matching_files[1]]))]
       ELSE IF data_objects = <<>> THEN [files |-> files, ret |-> Ok(FALSE)]
       ELSE IF IsRaised(merged_data) THEN [files |-> files, ret |-> Raised]
       ELSE [files |-> CleanUp(written, matching_files, output_filename),
             ret |-> Ok(validate_data(merged_data))]

MergeInit ==
    /\ \E files \in [DataDirFiles -> FileContents] :
          merge_call = [pc |-> "called", before |-> files, files |-> files]
    /\ CallsIdle
    /\ SearchIdle
    /\ embedder = Idle
    /\ records = Idle
    /\ pipeline = Idle
    /\ ingest_call = Idle
    /\ loader = Idle

CallMergeDataFiles ==
    /\ merge_call.pc = "called"
    /\ \E matching_files \in Orders(Matching(merge_call.files, S_al_b)) :
          LET result == merge_data_files(merge_call.files, S_al_b, matching_files)
          IN merge_call' = [pc |-> "returned", before |-> merge_call.before,
                            files |-> result.files, ret |-> result.ret]
    /\ UNCHANGED <<callVars, searchVars, embedder, records, pipeline, ingest_call, loader>>

MergeNext == CallMergeDataFiles

MergeSpec == MergeInit /\ [][MergeNext]_vars

\* C29: a file that merge_data_files has deleted is one it had loaded; a file that could
\* not be loaded is still on disk after the call
DeletedOnlyIfLoaded ==
    merge_call.pc = "returned" =>
        \A f \in DataDirFiles :
            merge_call.before[f] # NoRecord /\ merge_call.files[f] = NoRecord
                => merge_call.before[f] # Unparsable

-----------------------------------------------------------------------------
(* load_formatted_data.py: PoliticianDataLoader.load_data over the files of a glob *)

MaxLoaderFiles == 3

E_speech == Dict(<<<<"text", Str(S_body)>>, <<"type", Str(S_bio)>>>>)
E_remarks == Dict(<<<<"text", Str(S_remarks)>>>>)
E_no_text == Dict(<<<<"type", Str(S_bio)>>>>)
E_empty_text == Dict(<<<<"text", EmptyStr>>>>)
E_list_text == Dict(<<<<"text", List(<<Str(S_body)>>)>>>>)

\* what a file of the glob can hold: no JSON, a dict, and lists of entries
LoaderFileContents ==
    { Unparsable,
      E_speech,
      List(<<>>),
      List(<<E_speech, E_no_text, E_remarks>>),
      List(<<E_no_text, E_empty_text, Str(S_body), E_list_text>>) }

RECURSIVE LoaderFileSeqs(_)
LoaderFileSeqs(n) ==
    IF n = 0 THEN {<<>>}
    ELSE LoaderFileSeqs(n - 1)
         \union {Append(files, content) :
                    files \in {fs \in LoaderFileSeqs(n - 1) : Len(fs) = n - 1},
                    content \in LoaderFileContents}

\* an entry is kept if it is a dict whose text is a str that is not empty
KeptEntry(entry) ==
    /\ IsDict(entry)
    /\ HasKey(entry, "text")
    /\ IsStr(Item(entry, "text"))
    /\ Item(entry, "text").v # <<>>

\* process_file(file_path): the count and the items returned, and whether the except
\* branch was taken, which adds one to stats["skipped_files"]. The lists of the model
\* are shorter than CHUNK_SIZE, so that embed_texts is called once, if there is a text
process_file(content, embed_raises) ==
    IF content = Unparsable THEN [count |-> 0, items |-> <<>>, raised |-> TRUE]
    ELSE IF ~IsList(content) THEN [count |-> 0, items |-> <<>>, raised |-> FALSE]
    ELSE LET kept == SelectSeq(content.v, KeptEntry)
             processed_data ==
                 [i \in 1..Len(kept) |->
                     [text |-> Item(kept[i], "text"),
                      metadata |-> DropKey(kept[i], "text"),
                      embedding |-> Embed(Item(kept[i], "text").v)]]
         IN IF Len(kept) > 0 /\ embed_raises
            THEN [count |-> 0, items |-> <<>>, raised |-> TRUE]
            ELSE [count |-> Len(processed_data), items |-> processed_data, raised |-> FALSE]

\* one round of the loop of load_data
AfterFile(acc, content, embed_raises) ==
    LET result == process_file(content, embed_raises)
        skipped == IF result.raised THEN 1 ELSE 0
    IN IF result.count > 0
       THEN [stats |-> [acc.stats EXCEPT !.processed_files = @ + 1,
                                         !.documents_added = @ + result.count],
             all_processed_data |-> acc.all_processed_data \o result.items]
       ELSE [stats |-> [acc.stats EXCEPT !.skipped_files = @ + skipped + 1],
             all_processed_data |-> acc.all_processed_data]

RECURSIVE FilesLoop(_, _, _, _)
FilesLoop(acc, files, embed_raises, k) ==
    IF k > Len(files) THEN acc
    ELSE FilesLoop(AfterFile(acc, files[k], embed_raises[k]), files, embed_raises, k + 1)

NoStats == [processed_files |-> 0, documents_added |-> 0, skipped_files |-> 0]

LoaderInit ==
    /\ \E files \in LoaderFileSeqs(MaxLoaderFiles) :
          loader = [pc |-> "called", files |-> files, stats |-> NoStats,
                    embeddings_json |-> NoRecord]
    /\ CallsIdle
    /\ SearchIdle
    /\ embedder = Idle
    /\ records = Idle
    /\ pipeline = Idle
    /\ ingest_call = Idle
    /\ merge_call = Idle

\* load_data(input_glob): nothing is done without files; the stats are cleared, the
\* files are processed and all the items are saved to embeddings.json
LoadData ==
    /\ loader.pc = "called"
    /\ \E embed_raises \in [1..Len(loader.files) -> BOOLEAN] :
          LET acc == FilesLoop([stats |-> NoStats, all_processed_data |-> <<>>],
                               loader.files, embed_raises, 1)
          IN loader' = IF loader.files = <<>> THEN [loader EXCEPT !.pc = "returned"]
                       ELSE [loader EXCEPT !.pc = "returned", !.stats = acc.stats,
                                           !.embeddings_json = List(acc.all_processed_data)]
    /\ UNCHANGED <<callVars, searchVars, embedder, records, pipeline, ingest_call, merge_call>>

LoaderNext == LoadData

LoaderSpec == LoaderInit /\ [][LoaderNext]_vars

ItemsWritten == IF loader.embeddings_json = NoRecord THEN 0 ELSE Len(loader.embeddings_json.v)

\* C30: after load_data the processed and the skipped files add up to the files of the
\* glob, and documents_added is the number of items written to embeddings.json
StatsAddUp ==
    loader.pc = "returned" =>
        /\ loader.stats.processed_files + loader.stats.skipped_files = Len(loader.files)
        /\ loader.stats.documents_added = ItemsWritten

=============================================================================
